---- MODULE Spec2Model ----
(***************************************************************************)
(* Electric demand forecasting: the pattern predictor (ml/predict.py), the *)
(* blending predictor (ml/models/advanced_predictor.py), the fallback      *)
(* predictor and the forecast routes (app/routes/forecast.py) and the      *)
(* alert evaluator (app/routes/alerts.py).                                 *)
(*                                                                         *)
(* Numbers.  The code computes in binary64 and rounds results to two       *)
(* decimals.  The model is decimal fixed point:                            *)
(*   - a demand result is an integer number of 0.01 MW ("cMW");            *)
(*   - an unrounded demand is an integer number of 0.0001 MW ("d4");       *)
(*   - a multiplier is an integer number of hundredths (1.15 is 115);      *)
(*   - base_demand is an integer number of MW;                             *)
(*   - temp_coef is an integer number of 0.01 MW per degree;               *)
(*   - temperatures and humidities are whole degrees / percent.            *)
(* round(x, 2) is round-half-even on the exact decimal value.              *)
(***************************************************************************)
EXTENDS Integers, Sequences, FiniteSets, Bags, TLC

VARIABLES
    data_file,       \* ml/data/raw/electricity_demand.csv on disk
    data_mtime,      \* its modification time (a write counter)
    model_file,      \* ml/models/model.pkl on disk
    scaler_file,     \* ml/models/scaler.pkl on disk
    ml_importable,   \* whether "from ml.predict import DemandPredictor" succeeds
    predictor,       \* forecast.py's _predictor
    data_cache,      \* forecast.py's _data_cache
    last_data_load,  \* forecast.py's _last_data_load (-1 for None)
    backups,         \* electricity_demand_backup_*.csv, oldest first
    advanced,        \* an AdvancedDemandPredictor instance
    alerts_db,       \* alerts.py's alerts_db
    alert_config,    \* alerts.py's alert_config
    alert_subscriptions, \* alerts.py's alert_subscriptions
    weather_cache,   \* external_data.py's _weather_cache
    api_key,         \* whether OPENWEATHER_API_KEY is set
    households,      \* the Household collection: its documents, and the next id it gives
    users,           \* the users collection, in insertion order
    tokens_db,       \* auth.py's tokens_db: token -> user id
    issued,          \* how many tokens generate_token has given
    requests,        \* the auth handlers suspended at an await, a bag
    clock,           \* datetime.now(), in seconds since the process started
    pc,              \* "idle": no call in progress; otherwise the call answered
    call,            \* the arguments of the call last made
    resp             \* what that call returned

artifacts == <<model_file, scaler_file>>
disk == <<data_file, data_mtime, model_file, scaler_file, ml_importable, backups>>
app == <<predictor, data_cache, last_data_load>>
forecasting == <<disk, app, advanced>>
alerting == <<alerts_db, clock>>
notifying == <<alert_config, alert_subscriptions>>
weather == <<weather_cache, api_key>>
housing == <<households>>
accounts == <<users, tokens_db, issued, requests>>
\* What the forecast calls leave alone.
beside_forecasting == <<alerting, notifying, weather, housing, accounts>>
\* What the alert calls leave alone.
beside_alerting == <<forecasting, weather, housing, accounts>>
\* What the weather calls leave alone.
beside_weather == <<forecasting, alerts_db, notifying, housing, accounts>>
\* What the household calls leave alone.
beside_housing == <<forecasting, alerting, notifying, weather, accounts>>
\* What the authentication calls leave alone.
beside_accounts == <<forecasting, alerting, notifying, weather, housing>>
vars == <<data_file, data_mtime, model_file, scaler_file, ml_importable, backups,
          predictor, data_cache, last_data_load, advanced, alerts_db, clock,
          alert_config, alert_subscriptions, weather_cache, api_key, households,
          users, tokens_db, issued, requests, pc, call, resp>>

None == "None"

----------------------------------------------------------------------------
(* Arithmetic helpers                                                      *)

Max(a, b) == IF a >= b THEN a ELSE b
Min(a, b) == IF a <= b THEN a ELSE b

\* round-half-even of n/d for d > 0 (Python's round on an exact value).
RoundHalfEven(n, d) ==
    LET q == n \div d
        r == n % d
    IN  IF 2 * r < d THEN q
        ELSE IF 2 * r > d THEN q + 1
        ELSE IF q % 2 = 0 THEN q ELSE q + 1

\* round-half-even of x*num/den, computed without forming x*num.
RoundScaled(x, num, den) ==
    LET q == x \div den
        r == x % den
        whole == q * num + ((r * num) \div den)
        rem == (r * num) % den
    IN  IF 2 * rem < den THEN whole
        ELSE IF 2 * rem > den THEN whole + 1
        ELSE IF whole % 2 = 0 THEN whole ELSE whole + 1

RECURSIVE SumSeq(_)
SumSeq(s) == IF s = <<>> THEN 0 ELSE Head(s) + SumSeq(Tail(s))

RECURSIVE MaxSeq(_)
MaxSeq(s) == IF Len(s) = 1 THEN s[1] ELSE Max(Head(s), MaxSeq(Tail(s)))

RECURSIVE MinSeq(_)
MinSeq(s) == IF Len(s) = 1 THEN s[1] ELSE Min(Head(s), MinSeq(Tail(s)))

\* list.index(v): zero-based position of the first occurrence.
IndexOf(s, v) == (CHOOSE i \in 1..Len(s) : s[i] = v /\ \A j \in 1..(i - 1) : s[j] # v) - 1

----------------------------------------------------------------------------
(* Program constants                                                       *)

DefaultBaseDemand == 3500
DefaultTempCoef == 1500
ReferenceTemperature == 25
HumidityThreshold == 70
DefaultHumidity == 60
MinimumDemand == 10000          \* max(100, demand), in cMW
MLFloor == 1000000              \* prediction > 100, in d4

DefaultHourFactors ==
    [h \in 0..23 |->
        <<65, 58, 52, 48, 46, 50, 62, 78, 92, 102, 108, 112,
          115, 112, 108, 104, 100, 108, 118, 128, 122, 110, 92, 78>>[h + 1]]

DefaultDayFactors == [d \in 0..6 |-> <<102, 104, 105, 104, 102, 88, 85>>[d + 1]]

temp_variation ==
    [h \in 0..23 |->
        <<-4, -5, -6, -6, -5, -4, -2, 0, 2, 4, 6, 8,
          9, 10, 10, 9, 8, 6, 4, 2, 0, -1, -2, -3>>[h + 1]]

\* dict.get(key, 1.0)
GetFactor(table, key) == IF key \in DOMAIN table THEN table[key] ELSE 100

\* A multiplier that is not a number: numpy's 0.0 / 0.0
NaN == -1

\* The pattern product reads a multiplier that is not a number.
ReadsNaN(self, a) ==
    \/ GetFactor(self.hour_factors, a.hour) = NaN
    \/ GetFactor(self.day_factors, a.day_of_week) = NaN

----------------------------------------------------------------------------
(* Input spaces                                                            *)

MaxRows == 2            \* longest data file considered
MaxWrites == 2          \* writes of the data file considered
MaxAlerts == 5          \* longest alerts_db considered
MaxClock == 2           \* seconds considered
MaxHouseholds == 2      \* households registered
MaxStored == 3          \* longest alerts_db the alert operations grow
MaxLevel == 210         \* demands considered go up to MaxLevel/2 % of capacity
ColdBelow == 100        \* coldest temperature considered is -ColdBelow
HotAbove == 40          \* hottest temperature considered

\* One CSV record: the columns the predictors read.
RowKinds ==
    { [hour |-> 12, day_of_week |-> 2, temperature |-> 30, demand |-> 5000],
      [hour |-> 3,  day_of_week |-> 6, temperature |-> 15, demand |-> 3000] }

Datasets == UNION { [1..n -> RowKinds] : n \in 0..MaxRows }

\* The data file: absent, present but not parsable (read_csv raises), or a
\* sequence of rows.
MissingData == [exists |-> FALSE, readable |-> FALSE, rows |-> <<>>]
UnreadableData == [exists |-> TRUE, readable |-> FALSE, rows |-> <<>>]
CsvFile(rows) == [exists |-> TRUE, readable |-> TRUE, rows |-> rows]
DataFiles == {MissingData, UnreadableData} \cup {CsvFile(rows) : rows \in Datasets}

\* A trained linear model composed with its scaler is an affine map of the
\* features; its value is in d4.  raises: scaler.transform / model.predict
\* raise (for example on a feature-count mismatch).
LinearModel(b, wt, wh, wm, raises) ==
    [kind |-> "LinearRegression", b |-> b, wt |-> wt, wh |-> wh, wm |-> wm,
     raises |-> raises]

MLModels ==
    { LinearModel(-500000, 0, 0, 0, FALSE),
      LinearModel(1000040, 0, 0, 0, FALSE),
      LinearModel(30000000, 200000, 100000, 50000, FALSE),
      LinearModel(30000000, 0, 0, 0, TRUE) }

\* Python's None where a model object is expected.
NoModel == [kind |-> "None", b |-> 0, wt |-> 0, wh |-> 0, wm |-> 0, raises |-> FALSE]

\* model.pkl: absent, present but joblib.load raises, or a pickled model.
MissingModel == [exists |-> FALSE, loads |-> FALSE, object |-> NoModel]
CorruptModel == [exists |-> TRUE, loads |-> FALSE, object |-> NoModel]
ModelFiles == {MissingModel, CorruptModel}
                 \cup {[exists |-> TRUE, loads |-> TRUE, object |-> m] : m \in MLModels}
\* scaler.pkl: absent or present
ScalerFiles == BOOLEAN

Temperatures == {-ColdBelow, ReferenceTemperature, HotAbove}
Hours == 0..23
Days == 0..6
Months == 1..12

----------------------------------------------------------------------------
(* DemandPredictor (ml/predict.py)                                         *)

\* __init__ before the two loads: no model, no scaler, no pattern table yet.
BlankPredictor ==
    [kind |-> "DemandPredictor",
     model |-> NoModel, scaler |-> FALSE, use_model |-> FALSE,
     base_demand |-> 0, hour_factors |-> <<>>, day_factors |-> <<>>,
     temp_coef |-> 0, data_patterns |-> None]

\* _load_model: both files present -> load both and use the model; a load
\* that raises leaves use_model False; files absent -> nothing is touched.
LoadModel(self, mfile, sfile) ==
    IF mfile.exists /\ sfile
    THEN IF ~mfile.loads
         THEN [self EXCEPT !.use_model = FALSE]
         ELSE [self EXCEPT !.model = mfile.object, !.scaler = TRUE, !.use_model = TRUE]
    ELSE self

\* _set_default_patterns
SetDefaultPatterns(self) ==
    [self EXCEPT !.base_demand = DefaultBaseDemand,
                 !.hour_factors = DefaultHourFactors,
                 !.day_factors = DefaultDayFactors,
                 !.temp_coef = DefaultTempCoef,
                 !.data_patterns = "False"]

RECURSIVE SumDemand(_)
SumDemand(rows) == IF rows = <<>> THEN 0 ELSE Head(rows).demand + SumDemand(Tail(rows))

\* df['demand'].mean(), to the MW
DemandMean(rows) == RoundHalfEven(SumDemand(rows), Len(rows))

\* float(means.get(k, base_demand) / base_demand) for the rows grp of key k:
\* mean(grp)/mean(rows), or base/base = 1.0 when the key has no rows.
GroupFactor(rows, grp) ==
    IF SumDemand(rows) = 0 THEN NaN
    ELSE IF grp = <<>> THEN 100
    ELSE RoundHalfEven(SumDemand(grp) * Len(rows) * 100, Len(grp) * SumDemand(rows))

HourFactorsOf(rows) ==
    [h \in 0..23 |-> GroupFactor(rows, SelectSeq(rows, LAMBDA r : r.hour = h))]

DayFactorsOf(rows) ==
    [d \in 0..6 |-> GroupFactor(rows, SelectSeq(rows, LAMBDA r : r.day_of_week = d))]

\* With a mean demand of 0.0, a key without rows makes lines 62 and 70 divide
\* the default, the Python float 0.0, by 0.0: ZeroDivisionError, caught at
\* line 89.  A key with rows divides a numpy float and gives nan.
MeanDivisionRaises(rows) ==
    \/ \E h \in 0..23 : \A i \in 1..Len(rows) : rows[i].hour # h
    \/ \E d \in 0..6 : \A i \in 1..Len(rows) : rows[i].day_of_week # d

\* _load_data_patterns.  The correlation branch needs more than 10 records;
\* data files here are shorter, so temp_coef is the constant 15.
LoadDataPatterns(self, dfile) ==
    IF ~dfile.exists \/ ~dfile.readable \/ Len(dfile.rows) = 0
    THEN SetDefaultPatterns(self)
    ELSE IF SumDemand(dfile.rows) = 0 /\ MeanDivisionRaises(dfile.rows)
    THEN SetDefaultPatterns(self)
    ELSE [self EXCEPT !.base_demand = DemandMean(dfile.rows),
                      !.hour_factors = HourFactorsOf(dfile.rows),
                      !.day_factors = DayFactorsOf(dfile.rows),
                      !.temp_coef = DefaultTempCoef,
                      !.data_patterns = "True"]

\* DemandPredictor()
NewDemandPredictor(dfile, mfile, sfile) ==
    LoadDataPatterns(LoadModel(BlankPredictor, mfile, sfile), dfile)

\* reload_patterns
ReloadPatterns(self, dfile, mfile, sfile) ==
    LoadDataPatterns(LoadModel(self, mfile, sfile), dfile)

\* model.predict(scaler.transform(X))[0], in d4
MLOutput(m, a) == m.b + m.wt * a.temperature + m.wh * a.hour + m.wm * a.month

\* The pattern path without its last line's max(100, .).
PatternDemandUnfloored(self, a) ==
    LET product == self.base_demand * GetFactor(self.hour_factors, a.hour)
                                    * GetFactor(self.day_factors, a.day_of_week)
        demand == product + (a.temperature - ReferenceTemperature) * self.temp_coef * 100
    IN  RoundScaled(demand, 1, 100)

\* The pattern path of predict: lines 140-156, in cMW.
PatternDemand(self, a) ==
    LET product == self.base_demand * GetFactor(self.hour_factors, a.hour)
                                    * GetFactor(self.day_factors, a.day_of_week)
        demand == product + (a.temperature - ReferenceTemperature) * self.temp_coef * 100
        humid == a.humidity > HumidityThreshold
        holiday == a.is_holiday # 0
        rounded == IF humid /\ holiday THEN RoundScaled(demand, 867, 100000)
                   ELSE IF humid THEN RoundScaled(demand, 51, 5000)
                   ELSE IF holiday THEN RoundScaled(demand, 17, 2000)
                   ELSE RoundScaled(demand, 1, 100)
    IN  IF ReadsNaN(self, a) THEN MinimumDemand ELSE Max(MinimumDemand, rounded)

\* The ML path can answer: a model is in use, it does not raise, and its
\* output is above the "reasonable minimum".
MLAnswers(self, a) ==
    /\ self.use_model
    /\ self.model # NoModel
    /\ ~self.model.raises
    /\ MLOutput(self.model, a) > MLFloor

\* A predict that looks at model.pkl and scaler.pkl again at every call.
PredictFromDisk(self, a) ==
    LET fresh == LoadModel(self, model_file, scaler_file)
    IN  IF MLAnswers(fresh, a)
        THEN RoundScaled(MLOutput(fresh.model, a), 1, 100)
        ELSE PatternDemand(fresh, a)

\* predict
Predict(self, a) ==
    IF MLAnswers(self, a)
    THEN RoundScaled(MLOutput(self.model, a), 1, 100)
    ELSE PatternDemand(self, a)


\* An hour counted from the hour after the start.
HourAfterStart(s, i) == (s + i + 1) % 24

\* predict_next_24h: 24 points from start hour s on weekday w in month m.
HourAt(s, i) == (s + i) % 24
\* The weekday of the start for every point of the horizon
DayAtStart(s, w, i) == w

DayAt(s, w, i) == (w + ((s + i) \div 24)) % 7

ForecastArgs(base_temp, s, w, m, i) ==
    [temperature |-> base_temp + temp_variation[HourAt(s, i)],
     hour |-> HourAt(s, i), day_of_week |-> DayAt(s, w, i), month |-> m,
     humidity |-> DefaultHumidity, is_holiday |-> 0]

PredictNext24h(self, base_temp, s, w, m) ==
    [k \in 1..24 |->
        LET a == ForecastArgs(base_temp, s, w, m, k - 1)
        IN  [hour |-> a.hour, temperature |-> a.temperature,
             predicted_demand |-> Predict(self, a)]]

\* The 24 hourly demands of one day of predict_weekly.
HourlyOfDay(self, base_temp, dow, m) ==
    [k \in 1..24 |->
        Predict(self, [temperature |-> base_temp + temp_variation[k - 1],
                       hour |-> k - 1, day_of_week |-> dow, month |-> m,
                       humidity |-> DefaultHumidity, is_holiday |-> 0])]

\* A day entry with peak and trough exchanged.
DaySummaryExchanged(hourly, dow) ==
    [day |-> dow,
     avg_demand |-> RoundHalfEven(SumSeq(hourly), Len(hourly)),
     peak_demand |-> MinSeq(hourly),
     min_demand |-> MaxSeq(hourly),
     total_energy_mwh |-> SumSeq(hourly),
     peak_hour |-> IndexOf(hourly, MaxSeq(hourly))]

\* One day entry: round(np.mean), round(max), round(min), round(sum), index.
DaySummary(hourly, dow) ==
    [day |-> dow,
     avg_demand |-> RoundHalfEven(SumSeq(hourly), Len(hourly)),
     peak_demand |-> MaxSeq(hourly),
     min_demand |-> MinSeq(hourly),
     total_energy_mwh |-> SumSeq(hourly),
     peak_hour |-> IndexOf(hourly, MaxSeq(hourly))]

\* date.month of today + i days, when today is in month m with `left` days
\* of that month still to come (today included).
MonthAt(m, left, i) == IF i < left THEN m ELSE (m % 12) + 1

\* predict_weekly with today a weekday w in month m.
PredictWeekly(self, base_temp, w, m, left) ==
    [k \in 1..7 |->
        DaySummary(HourlyOfDay(self, base_temp, (w + k - 1) % 7, MonthAt(m, left, k - 1)),
                   (w + k - 1) % 7)]

----------------------------------------------------------------------------
(* DataDrivenPredictor (app/routes/forecast.py), the fallback predictor    *)

FlatHourFactors == [h \in 0..23 |-> 100]
FlatDayFactors == [d \in 0..6 |-> 100]

\* _compute_patterns over self.data (cache.loaded is "data is not None").
ComputePatterns(cache) ==
    IF ~cache.loaded \/ Len(cache.rows) = 0
    THEN [kind |-> "DataDrivenPredictor",
          model |-> NoModel, scaler |-> FALSE, use_model |-> FALSE,
          base_demand |-> DefaultBaseDemand,
          hour_factors |-> FlatHourFactors,
          day_factors |-> FlatDayFactors,
          temp_coef |-> DefaultTempCoef, data_patterns |-> None]
    ELSE [kind |-> "DataDrivenPredictor",
          model |-> NoModel, scaler |-> FALSE, use_model |-> FALSE,
          base_demand |-> DemandMean(cache.rows),
          hour_factors |-> HourFactorsOf(cache.rows),
          day_factors |-> DayFactorsOf(cache.rows),
          temp_coef |-> DefaultTempCoef, data_patterns |-> None]

\* DataDrivenPredictor.predict, in cMW; max(0, nan) is 0
FallbackPredict(self, a) ==
    LET product == self.base_demand * GetFactor(self.hour_factors, a.hour)
                                    * GetFactor(self.day_factors, a.day_of_week)
        demand == product + (a.temperature - ReferenceTemperature) * self.temp_coef * 100
    IN  IF ReadsNaN(self, a) THEN 0 ELSE Max(0, RoundScaled(demand, 1, 100))

\* DataDrivenPredictor.predict_next_24h
FallbackNext24h(self, base_temp, s, w, m) ==
    [k \in 1..24 |->
        LET a == ForecastArgs(base_temp, s, w, m, k - 1)
        IN  [hour |-> a.hour, temperature |-> a.temperature,
             predicted_demand |-> FallbackPredict(self, a)]]

----------------------------------------------------------------------------
(* AdvancedDemandPredictor (ml/models/advanced_predictor.py)               *)

AdvancedBaseDemand == 3680
TemperatureCoefficient == 15        \* MW per degree
HumidityCoefficient == -2           \* MW per 10 % of humidity
PopulationScale == 230              \* 23,000,000 people, in units of 100,000

hour_patterns == DefaultHourFactors
day_patterns == DefaultDayFactors
month_patterns == [m \in 1..12 |-> <<95, 97, 100, 102, 100, 98, 95, 96, 98, 102, 100, 98>>[m]]

\* No AdvancedDemandPredictor constructed yet.
NoAdvanced == [constructed |-> FALSE, linear |-> NoModel, standard |-> FALSE]

\* load_models: each artifact that exists is loaded.
AdvLoadModels(mfile, sfile) ==
    [constructed |-> TRUE,
     linear |-> IF mfile.exists THEN mfile.object ELSE NoModel, standard |-> sfile]

\* The pattern demand of lines 104-119, in d4.  population is in units of
\* 100,000 people, 0 for None.
AdvPatternDemand(a) ==
    LET product == RoundScaled(AdvancedBaseDemand * GetFactor(hour_patterns, a.hour)
                                                  * GetFactor(day_patterns, a.day_of_week),
                               GetFactor(month_patterns, a.month), 100)
        temp_adjustment == (a.temperature - ReferenceTemperature) * TemperatureCoefficient * 10000
        humidity_adjustment == (a.humidity - DefaultHumidity) * HumidityCoefficient * 1000
        demand == product + temp_adjustment + humidity_adjustment
    IN  IF a.population # 0 THEN RoundScaled(demand, a.population, PopulationScale)
        ELSE demand

\* The try block of lines 123-131 blends: both artifacts loaded, use_ml, and
\* neither transform nor predict raises.
AdvBlends(self, a) ==
    /\ a.use_ml
    /\ self.linear # NoModel
    /\ self.standard
    /\ ~self.linear.raises

\* demand before rounding, in d4
AdvDemand(self, a) ==
    IF AdvBlends(self, a)
    THEN RoundHalfEven(6 * AdvPatternDemand(a) + 4 * MLOutput(self.linear, a), 10)
    ELSE AdvPatternDemand(a)

\* round(0.82 + 0.08 * (1 - abs(hour - 14) / 14), 3), in thousandths
Abs(x) == IF x < 0 THEN -x ELSE x
AdvConfidence(hour) == RoundHalfEven(820 * 14 + 80 * (14 - Abs(hour - 14)), 14)

\* AdvancedDemandPredictor.predict: demands in cMW.  std_dev is 8 % of the
\* demand, so the bounds are demand * (1 -+ 1.96 * 0.08).
AdvPredict(self, a) ==
    LET demand == AdvDemand(self, a)
    IN  [predicted_demand |-> Max(0, RoundScaled(demand, 1, 100)),
         confidence |-> AdvConfidence(a.hour),
         lower_bound |-> Max(0, RoundScaled(demand, 527, 62500)),
         upper_bound |-> RoundScaled(demand, 723, 62500),
         ml_contribution |-> AdvBlends(self, a)]

AdvArgs(temperature, hour, dow, month) ==
    [temperature |-> temperature, hour |-> hour, day_of_week |-> dow, month |-> month,
     humidity |-> DefaultHumidity, population |-> 0, use_ml |-> TRUE]

\* AdvancedDemandPredictor.predict_weekly; confidence in thousandths.
AdvPredictWeekly(self, base_temp, w, m, left) ==
    [k \in 1..7 |->
        LET dow == (w + k - 1) % 7
            hourly == [h \in 1..24 |->
                         AdvPredict(self, AdvArgs(base_temp + temp_variation[h - 1], h - 1,
                                                  dow, MonthAt(m, left, k - 1))).predicted_demand]
        IN  [day |-> dow,
             avg_demand |-> RoundHalfEven(SumSeq(hourly), Len(hourly)),
             peak_demand |-> MaxSeq(hourly),
             min_demand |-> MinSeq(hourly),
             total_energy_mwh |-> SumSeq(hourly),
             peak_hour |-> IndexOf(hourly, MaxSeq(hourly)),
             confidence |-> 850 - (k - 1) * 20]]

\* AdvancedDemandPredictor.predict_24h(base_temperature) from start hour s
AdvPredict24h(self, base_temp, s, w, m) ==
    [k \in 1..24 |->
        LET hour == HourAt(s, k - 1)
            temp == base_temp + temp_variation[hour]
            result == AdvPredict(self, AdvArgs(temp, hour, DayAt(s, w, k - 1), m))
        IN  [hour |-> hour, offset |-> k - 1, temperature |-> temp,
             predicted_demand |-> result.predicted_demand,
             confidence |-> result.confidence,
             lower_bound |-> result.lower_bound,
             upper_bound |-> result.upper_bound,
             ml_contribution |-> result.ml_contribution]]

----------------------------------------------------------------------------
(* Alert evaluator (app/routes/alerts.py)                                  *)

DefaultCapacity == 9000
EmergencyPercent == 95
CriticalPercent == 85
WarningPercent == 75

\* acknowledged_at of an alert nobody acknowledged
NoTime == -1

\* Alert(...): message and recommendation are texts no handler reads and
\* are left out; timestamp is in seconds since the process started;
\* acknowledged, acknowledged_by and acknowledged_at take their defaults.
Alert(id, type, severity, title, timestamp) ==
    [id |-> id, type |-> type, severity |-> severity, title |-> title,
     timestamp |-> timestamp, acknowledged |-> FALSE,
     acknowledged_by |-> None, acknowledged_at |-> NoTime]

\* init_sample_alerts: the three alerts alerts_db starts with; their
\* timestamps are 19:00, 08:00 and 14:30 of the day the process starts, here
\* at noon.
SampleAlert(n, type, severity) ==
    Alert([stamp |-> "20251216", n |-> n], type, severity, "sample",
          CASE n = 1 -> 25200 [] n = 2 -> -14400 [] OTHER -> 9000)

SampleAlerts ==
    << SampleAlert(1, "peak_demand", "warning"),
       SampleAlert(2, "maintenance", "info"),
       SampleAlert(3, "weather", "info") >>

\* generate_alert_id at time now: the second it is called and len(alerts_db)+1
GenerateAlertId(db, now) == [stamp |-> ToString(now), n |-> Len(db) + 1]

PeakAlert(db, now, severity) ==
    Alert(GenerateAlertId(db, now), "peak_demand", severity, "peak", now)

\* utilization >= pct
UtilizationAtLeast(demand_mw, capacity_mw, pct) == demand_mw * 100 >= pct * capacity_mw

\* utilization > pct, where utilization = (demand_mw / capacity_mw) * 100
UtilizationAbove(demand_mw, capacity_mw, pct) == demand_mw * 100 > pct * capacity_mw

\* check_thresholds(demand_mw, capacity_mw) called at time now
CheckThresholds(demand_mw, capacity_mw, db, now) ==
    IF UtilizationAbove(demand_mw, capacity_mw, EmergencyPercent)
    THEN <<PeakAlert(db, now, "emergency")>>
    ELSE IF UtilizationAbove(demand_mw, capacity_mw, CriticalPercent)
    THEN <<PeakAlert(db, now, "critical")>>
    ELSE IF UtilizationAbove(demand_mw, capacity_mw, WarningPercent)
    THEN <<PeakAlert(db, now, "warning")>>
    ELSE <<>>

\* create_alert's Alert(...) for a request
RequestedAlert(request, db, now) ==
    Alert(GenerateAlertId(db, now), request.type, request.severity, request.title, now)

\* An acknowledgement that flips the flag
AcknowledgedFlipped(alert, user, now) ==
    [alert EXCEPT !.acknowledged = ~alert.acknowledged, !.acknowledged_by = user,
                  !.acknowledged_at = now]

\* The alert after lines 211-213 of acknowledge_alert
Acknowledged(alert, user, now) ==
    [alert EXCEPT !.acknowledged = TRUE, !.acknowledged_by = user,
                  !.acknowledged_at = now]

\* Position of the first alert of db with this id, 0 if there is none
FirstWithId(db, alert_id) ==
    IF \E i \in 1..Len(db) : db[i].id = alert_id
    THEN CHOOSE i \in 1..Len(db) :
            /\ db[i].id = alert_id
            /\ \A j \in 1..(i - 1) : db[j].id # alert_id
    ELSE 0

\* [a for a in alerts_db if a.id != alert_id]
WithoutId(db, alert_id) == SelectSeq(db, LAMBDA a : a.id # alert_id)

\* list.sort(key=timestamp, reverse=True): a stable sort, latest first
RECURSIVE SortLatestFirst(_)
SortLatestFirst(alerts) ==
    IF alerts = <<>> THEN <<>>
    ELSE LET first == CHOOSE i \in 1..Len(alerts) :
                        /\ \A j \in 1..Len(alerts) : alerts[j].timestamp <= alerts[i].timestamp
                        /\ \A j \in 1..(i - 1) : alerts[j].timestamp < alerts[i].timestamp
         IN  <<alerts[first]>> \o
             SortLatestFirst(SubSeq(alerts, 1, first - 1) \o SubSeq(alerts, first + 1, Len(alerts)))

\* A filter of get_alerts that was not given
NoFilter == [given |-> FALSE, value |-> FALSE]

\* get_alerts' filtered list before the limit
FilteredAlerts(db, severity, alert_type, acknowledged) ==
    SortLatestFirst(SelectSeq(db, LAMBDA a :
        /\ severity # None => a.severity = severity
        /\ alert_type # None => a.type = alert_type
        /\ acknowledged.given => a.acknowledged = acknowledged.value))

\* len([a for a in alerts_db if not a.acknowledged])
Unacknowledged(db) == Len(SelectSeq(db, LAMBDA a : ~a.acknowledged))

----------------------------------------------------------------------------
(* forecast.py: module state, load_data, get_predictor                     *)

\* _predictor = None
NoPredictor ==
    [kind |-> "None", model |-> NoModel, scaler |-> FALSE, use_model |-> FALSE,
     base_demand |-> 0, hour_factors |-> <<>>, day_factors |-> <<>>,
     temp_coef |-> 0, data_patterns |-> None]

\* _data_cache = None
NoCache == [loaded |-> FALSE, rows |-> <<>>]

\* load_data(): the cache is refreshed when the file exists and the cache is
\* empty or older than the file; read_csv raising leaves the cache as it was.
LoadData(dfile, mtime, cache, last) ==
    IF dfile.exists /\ (~cache.loaded \/ last # mtime)
    THEN IF dfile.readable
         THEN [raised |-> FALSE, cache |-> [loaded |-> TRUE, rows |-> dfile.rows],
               last |-> mtime]
         ELSE [raised |-> TRUE, cache |-> cache, last |-> last]
    ELSE [raised |-> FALSE, cache |-> cache, last |-> last]

\* get_predictor(force_reload): the predictor it leaves in _predictor, the
\* cache, and whether it raised (the fallback's constructor can).
GetPredictor(force_reload) ==
    IF predictor.kind # "None" /\ ~force_reload
    THEN [raised |-> FALSE, predictor |-> predictor,
          cache |-> data_cache, last |-> last_data_load]
    ELSE IF ml_importable
    THEN [raised |-> FALSE,
          predictor |-> NewDemandPredictor(data_file, model_file, scaler_file),
          cache |-> data_cache, last |-> last_data_load]
    ELSE LET ld == LoadData(data_file, data_mtime, data_cache, last_data_load)
         IN  IF ld.raised
             THEN [raised |-> TRUE, predictor |-> predictor,
                   cache |-> ld.cache, last |-> ld.last]
             ELSE [raised |-> FALSE, predictor |-> ComputePatterns(ld.cache),
                   cache |-> ld.cache, last |-> ld.last]

\* predictor.predict(temperature=, hour=, day_of_week=, month=) on either kind
PredictOn(self, a) ==
    IF self.kind = "DemandPredictor" THEN Predict(self, a) ELSE FallbackPredict(self, a)

\* predictor.predict_next_24h(base_temp) on either kind
Next24hOn(self, base_temp, s, w, m) ==
    IF self.kind = "DemandPredictor" THEN PredictNext24h(self, base_temp, s, w, m)
    ELSE FallbackNext24h(self, base_temp, s, w, m)

\* A ForecastRequest whose hour may be 24.
ValidRequestThrough24(req) ==
    /\ req.hour >= 0 /\ req.hour <= 24
    /\ req.day_of_week >= 0 /\ req.day_of_week <= 6
    /\ req.month >= 1 /\ req.month <= 12

\* ForecastRequest: Field(ge=, le=) on hour, day_of_week and month.
ValidRequest(req) ==
    /\ req.hour >= 0 /\ req.hour <= 23
    /\ req.day_of_week >= 0 /\ req.day_of_week <= 6
    /\ req.month >= 1 /\ req.month <= 12

RouteArgs(temperature, hour, dow, month) ==
    [temperature |-> temperature, hour |-> hour, day_of_week |-> dow, month |-> month,
     humidity |-> DefaultHumidity, is_holiday |-> 0]

----------------------------------------------------------------------------
(* Actions.  A call is made from "idle" and leaves pc at its name, its     *)
(* arguments in call and its response in resp; Return hands the response   *)
(* over.  A raised exception is status 500.                                *)

NoResp == [status |-> 0]

\* The three assignments a handler makes through get_predictor().
Publish(gp) ==
    /\ predictor' = gp.predictor
    /\ data_cache' = gp.cache
    /\ last_data_load' = gp.last

\* GET /forecast at time now = [hour, weekday, month]
GetForecast(now) ==
    /\ pc = "idle"
    /\ LET gp == GetPredictor(FALSE)
           a == RouteArgs(ReferenceTemperature, now.hour, now.weekday, now.month)
       IN  /\ Publish(gp)
           /\ resp' = IF gp.raised THEN [status |-> 500]
                      ELSE [status |-> 200,
                            forecasted_demand |-> PredictOn(gp.predictor, a)]
    /\ pc' = "get_forecast"
    /\ call' = now
    /\ UNCHANGED <<disk, advanced, beside_forecasting>>

\* POST /forecast
PostForecast(req) ==
    /\ pc = "idle"
    /\ IF ~ValidRequest(req)
       THEN /\ resp' = [status |-> 422]
            /\ UNCHANGED app
       ELSE LET gp == GetPredictor(FALSE)
                a == RouteArgs(req.temperature, req.hour, req.day_of_week, req.month)
            IN  /\ Publish(gp)
                /\ resp' = IF gp.raised THEN [status |-> 500]
                           ELSE [status |-> 200,
                                 forecasted_demand |-> PredictOn(gp.predictor, a)]
    /\ pc' = "predict_demand"
    /\ call' = req
    /\ UNCHANGED <<disk, advanced, beside_forecasting>>

\* The demands of a forecast list
DemandsOf(predictions) == [k \in 1..Len(predictions) |-> predictions[k].predicted_demand]

\* GET /forecast/24h?base_temperature=
Get24hForecast(base_temp, now) ==
    /\ pc = "idle"
    /\ LET gp == GetPredictor(FALSE)
       IN  /\ Publish(gp)
           /\ resp' =
                IF gp.raised THEN [status |-> 500]
                ELSE LET forecasts == Next24hOn(gp.predictor, base_temp, now.hour,
                                                now.weekday, now.month)
                         demands == DemandsOf(forecasts)
                     IN  [status |-> 200,
                          forecasts |-> forecasts,
                          base_temperature |-> base_temp,
                          total_energy_mwh |-> SumSeq(demands),
                          peak_hour |-> forecasts[IndexOf(demands, MaxSeq(demands)) + 1].hour,
                          peak_demand |-> MaxSeq(demands)]
    /\ pc' = "get_24h_forecast"
    /\ call' = [base_temp |-> base_temp, start |-> now]
    /\ UNCHANGED <<disk, advanced, beside_forecasting>>

\* GET /analytics
GetAnalytics(now) ==
    /\ pc = "idle"
    /\ LET gp == GetPredictor(FALSE)
       IN  /\ Publish(gp)
           /\ resp' =
                IF gp.raised THEN [status |-> 500]
                ELSE LET predictions == Next24hOn(gp.predictor, ReferenceTemperature,
                                                  now.hour, now.weekday, now.month)
                         demands == DemandsOf(predictions)
                     IN  [status |-> 200,
                          avg_demand |-> RoundHalfEven(SumSeq(demands), Len(demands)),
                          max_demand |-> MaxSeq(demands),
                          min_demand |-> MinSeq(demands),
                          peak_hour |-> predictions[IndexOf(demands, MaxSeq(demands)) + 1].hour,
                          low_hour |-> predictions[IndexOf(demands, MinSeq(demands)) + 1].hour,
                          total_energy_24h |-> SumSeq(demands)]
    /\ pc' = "get_analytics"
    /\ call' = [base_temp |-> ReferenceTemperature, start |-> now]
    /\ UNCHANGED <<disk, advanced, beside_forecasting>>

\* DELETE /data/reset: the oldest backup replaces the data file; the cache
\* and the predictor are dropped (_last_data_load is not).
ResetData ==
    /\ pc = "idle"
    /\ data_mtime < MaxWrites
    /\ IF backups # <<>>
       THEN /\ data_file' = backups[1]
            /\ data_mtime' = data_mtime + 1
            /\ data_cache' = NoCache
            /\ predictor' = NoPredictor
            /\ resp' = [status |-> 200, restored |-> TRUE]
       ELSE /\ UNCHANGED <<data_file, data_mtime, data_cache, predictor>>
            /\ resp' = [status |-> 200, restored |-> FALSE]
    /\ pc' = "reset_data"
    /\ call' = NoResp
    /\ UNCHANGED <<artifacts, ml_importable, backups, last_data_load, advanced,
                   beside_forecasting>>

\* DemandPredictor.predict called on the instance
PredictCall(a) ==
    /\ pc = "idle"
    /\ predictor.kind = "DemandPredictor"
    /\ resp' = [status |-> 200, demand |-> Predict(predictor, a)]
    /\ pc' = "predict"
    /\ call' = a
    /\ UNCHANGED <<disk, app, advanced, beside_forecasting>>

\* The caller of predict calls it again with the same arguments.
PredictAgain ==
    /\ pc = "predict"
    /\ resp' = [status |-> 200, demand |-> resp.demand, second |-> Predict(predictor, call)]
    /\ pc' = "predict_again"
    /\ UNCHANGED <<disk, app, advanced, call, beside_forecasting>>

\* DemandPredictor.reload_patterns called on the instance
ReloadPatternsCall ==
    /\ pc = "idle"
    /\ predictor.kind = "DemandPredictor"
    /\ predictor' = ReloadPatterns(predictor, data_file, model_file, scaler_file)
    /\ resp' = [status |-> 200]
    /\ pc' = "reload_patterns"
    /\ call' = NoResp
    /\ UNCHANGED <<disk, data_cache, last_data_load, advanced, beside_forecasting>>

\* DataDrivenPredictor.reload_data called on the instance
ReloadDataCall ==
    /\ pc = "idle"
    /\ predictor.kind = "DataDrivenPredictor"
    /\ LET ld == LoadData(data_file, data_mtime, data_cache, last_data_load)
       IN  /\ data_cache' = ld.cache
           /\ last_data_load' = ld.last
           /\ predictor' = IF ld.raised THEN predictor ELSE ComputePatterns(ld.cache)
           /\ resp' = [status |-> IF ld.raised THEN 500 ELSE 200]
    /\ pc' = "reload_data"
    /\ call' = NoResp
    /\ UNCHANGED <<disk, advanced, beside_forecasting>>

\* DemandPredictor.predict_next_24h(base_temp, start) on the instance
PredictNext24hCall(base_temp, start) ==
    /\ pc = "idle"
    /\ predictor.kind = "DemandPredictor"
    /\ resp' = [status |-> 200,
                predictions |-> PredictNext24h(predictor, base_temp, start.hour,
                                               start.weekday, start.month)]
    /\ pc' = "predict_next_24h"
    /\ call' = [base_temp |-> base_temp, start |-> start]
    /\ UNCHANGED <<disk, app, advanced, beside_forecasting>>

\* DemandPredictor.predict_weekly(base_temp) on the instance, today = start
PredictWeeklyCall(base_temp, today) ==
    /\ pc = "idle"
    /\ predictor.kind = "DemandPredictor"
    /\ resp' = [status |-> 200,
                predictions |-> PredictWeekly(predictor, base_temp, today.weekday,
                                              today.month, today.left)]
    /\ pc' = "predict_weekly"
    /\ call' = [base_temp |-> base_temp, start |-> today]
    /\ UNCHANGED <<disk, app, advanced, beside_forecasting>>

\* AdvancedDemandPredictor(): joblib.load of a broken model.pkl raises out
\* of the constructor and no instance results.
AdvNew ==
    /\ pc = "idle"
    /\ IF model_file.exists /\ ~model_file.loads
       THEN /\ resp' = [status |-> 500]
            /\ UNCHANGED advanced
       ELSE /\ resp' = [status |-> 200]
            /\ advanced' = AdvLoadModels(model_file, scaler_file)
    /\ pc' = "adv_new"
    /\ call' = NoResp
    /\ UNCHANGED <<disk, app, beside_forecasting>>

\* AdvancedDemandPredictor.predict on the instance
AdvPredictCall(a) ==
    /\ pc = "idle"
    /\ advanced.constructed
    /\ resp' = [status |-> 200, result |-> AdvPredict(advanced, a)]
    /\ pc' = "adv_predict"
    /\ call' = a
    /\ UNCHANGED <<disk, app, advanced, beside_forecasting>>

\* The caller of AdvancedDemandPredictor.predict calls it again.
AdvPredictAgain ==
    /\ pc = "adv_predict"
    /\ resp' = [status |-> 200, result |-> resp.result, second |-> AdvPredict(advanced, call)]
    /\ pc' = "adv_predict_again"
    /\ UNCHANGED <<disk, app, advanced, call, beside_forecasting>>

\* AdvancedDemandPredictor.predict_24h(base_temperature, start_datetime=start)
AdvPredict24hCall(base_temp, start) ==
    /\ pc = "idle"
    /\ advanced.constructed
    /\ resp' = [status |-> 200,
                predictions |-> AdvPredict24h(advanced, base_temp, start.hour,
                                              start.weekday, start.month)]
    /\ pc' = "adv_predict_24h"
    /\ call' = [base_temp |-> base_temp, start |-> start]
    /\ UNCHANGED <<disk, app, advanced, beside_forecasting>>

\* AdvancedDemandPredictor.predict_weekly(base_temperature, start_date=start)
AdvPredictWeeklyCall(base_temp, start) ==
    /\ pc = "idle"
    /\ advanced.constructed
    /\ resp' = [status |-> 200,
                predictions |-> AdvPredictWeekly(advanced, base_temp, start.weekday,
                                                 start.month, start.left)]
    /\ pc' = "adv_predict_weekly"
    /\ call' = [base_temp |-> base_temp, start |-> start]
    /\ UNCHANGED <<disk, app, advanced, beside_forecasting>>

\* ml/train.py run as a program: save_model writes model.pkl and scaler.pkl.
\* It is another process, so it can run while a caller holds a response.
SaveModel(m) ==
    /\ model_file' = [exists |-> TRUE, loads |-> TRUE, object |-> m]
    /\ scaler_file' = TRUE
    /\ <<model_file', scaler_file'>> # <<model_file, scaler_file>>
    /\ UNCHANGED <<data_file, data_mtime, ml_importable, backups, app, advanced,
                   beside_forecasting, pc, call, resp>>

\* check_thresholds(demand_mw, capacity_mw) called as a function
CheckThresholdsCall(demand_mw, capacity_mw) ==
    /\ pc = "idle"
    /\ resp' = [status |-> 200,
                alerts |-> CheckThresholds(demand_mw, capacity_mw, alerts_db, clock)]
    /\ pc' = "check_thresholds"
    /\ call' = [demand_mw |-> demand_mw, capacity_mw |-> capacity_mw]
    /\ UNCHANGED <<beside_alerting, alerting, notifying>>

\* POST /alerts/check-demand?demand_mw=
CheckDemand(demand_mw) ==
    /\ pc = "idle"
    /\ Len(alerts_db) < MaxAlerts
    /\ LET new_alerts == CheckThresholds(demand_mw, DefaultCapacity, alerts_db, clock)
       IN  /\ alerts_db' = alerts_db \o new_alerts
           /\ resp' = [status |-> 200, demand_mw |-> demand_mw,
                       alerts_generated |-> Len(new_alerts), alerts |-> new_alerts]
    /\ pc' = "check_demand_alerts"
    /\ call' = [demand_mw |-> demand_mw, capacity_mw |-> DefaultCapacity]
    /\ UNCHANGED <<beside_alerting, clock, notifying>>

\* POST /alerts/create
CreateAlert(request) ==
    /\ pc = "idle"
    /\ Len(alerts_db) < MaxAlerts
    /\ LET alert == RequestedAlert(request, alerts_db, clock)
       IN  /\ alerts_db' = Append(alerts_db, alert)
           /\ resp' = [status |-> 200, alert |-> alert]
    /\ pc' = "create_alert"
    /\ call' = request
    /\ UNCHANGED <<beside_alerting, clock, notifying>>

\* POST /alerts/{alert_id}/acknowledge?user=
AcknowledgeAlert(alert_id, user) ==
    /\ pc = "idle"
    /\ LET i == FirstWithId(alerts_db, alert_id)
       IN  IF i = 0
           THEN /\ resp' = [status |-> 404, alerts |-> <<>>]
                /\ UNCHANGED alerts_db
           ELSE /\ alerts_db' = [alerts_db EXCEPT ![i] = Acknowledged(@, user, clock)]
                /\ resp' = [status |-> 200,
                            alerts |-> <<Acknowledged(alerts_db[i], user, clock)>>]
    /\ pc' = "acknowledge_alert"
    /\ call' = [alert_id |-> alert_id, user |-> user]
    /\ UNCHANGED <<beside_alerting, clock, notifying>>

\* DELETE /alerts/{alert_id}
DeleteAlert(alert_id) ==
    /\ pc = "idle"
    /\ alerts_db' = WithoutId(alerts_db, alert_id)
    /\ resp' = [status |-> 200]
    /\ pc' = "delete_alert"
    /\ call' = [alert_id |-> alert_id]
    /\ UNCHANGED <<beside_alerting, clock, notifying>>

\* GET /alerts/?severity=&alert_type=&acknowledged=&limit=
GetAlerts(severity, alert_type, acknowledged, limit) ==
    /\ pc = "idle"
    /\ LET filtered == FilteredAlerts(alerts_db, severity, alert_type, acknowledged)
       IN  resp' = [status |-> 200,
                    alerts |-> SubSeq(filtered, 1, Min(limit, Len(filtered))),
                    total |-> Len(filtered),
                    unacknowledged |-> Unacknowledged(alerts_db)]
    /\ pc' = "get_alerts"
    /\ call' = [severity |-> severity, alert_type |-> alert_type,
                acknowledged |-> acknowledged, limit |-> limit]
    /\ UNCHANGED <<beside_alerting, alerting, notifying>>

\* GET /alerts/summary; every alert is younger than 24 hours here.
GetAlertsSummary ==
    /\ pc = "idle"
    /\ resp' = [status |-> 200,
                total_alerts |-> Len(alerts_db),
                unacknowledged |-> Unacknowledged(alerts_db),
                latest_alert |-> IF alerts_db = <<>> THEN <<>>
                                 ELSE <<alerts_db[Len(alerts_db)]>>]
    /\ pc' = "get_alerts_summary"
    /\ call' = NoResp
    /\ UNCHANGED <<beside_alerting, alerting, notifying>>

\* GET /alerts/config
GetAlertConfig ==
    /\ pc = "idle"
    /\ resp' = [status |-> 200, config |-> alert_config]
    /\ pc' = "get_alert_config"
    /\ call' = NoResp
    /\ UNCHANGED <<beside_alerting, alerting, notifying>>

\* PUT /alerts/config
UpdateAlertConfig(config) ==
    /\ pc = "idle"
    /\ alert_config' = config
    /\ resp' = [status |-> 200, config |-> config]
    /\ pc' = "update_alert_config"
    /\ call' = config
    /\ UNCHANGED <<beside_alerting, alerting, alert_subscriptions>>

\* POST /alerts/subscribe?email=
SubscribeToAlerts(email) ==
    /\ pc = "idle"
    /\ alert_subscriptions' = {sub \in alert_subscriptions : sub.email # email}
                                \cup {[email |-> email, subscribed_at |-> clock]}
    /\ resp' = [status |-> 200]
    /\ pc' = "subscribe_to_alerts"
    /\ call' = [email |-> email]
    /\ UNCHANGED <<beside_alerting, alerting, alert_config>>

\* DELETE /alerts/subscribe/{email}
UnsubscribeFromAlerts(email) ==
    /\ pc = "idle"
    /\ IF \E sub \in alert_subscriptions : sub.email = email
       THEN /\ alert_subscriptions' = {sub \in alert_subscriptions : sub.email # email}
            /\ resp' = [status |-> 200]
       ELSE /\ resp' = [status |-> 404]
            /\ UNCHANGED alert_subscriptions
    /\ pc' = "unsubscribe_from_alerts"
    /\ call' = [email |-> email]
    /\ UNCHANGED <<beside_alerting, alerting, alert_config>>

\* A second passes.
Tick ==
    /\ clock < MaxClock
    /\ clock' = clock + 1
    /\ UNCHANGED <<beside_alerting, alerts_db, notifying, pc, call, resp>>

Return ==
    /\ pc \notin {"idle", "load_data_patterns"}
    /\ pc' = "idle"
    /\ call' = NoResp
    /\ resp' = NoResp
    /\ UNCHANGED <<forecasting, beside_forecasting>>

----------------------------------------------------------------------------
(* Forecast alerts: AdvancedDemandPredictor.generate_alerts and the routes *)
(* of app/routes/ai_insights.py                                            *)

CriticalDemand == 480000            \* demand > 4800, in cMW
WarningDemand == 420000             \* demand > 4200
RouteWarningDemand == 450000        \* demand > 4500 in GET /ai/alerts
MaintenanceDemand == 250000         \* demand < 2500
MaintenanceFrom == 2                \* 2 <= hour
MaintenanceUntil == 5               \* hour <= 5

ForecastAlert(type, category, pred) ==
    [type |-> type, category |-> category, hour |-> pred.hour]

\* The alerts generate_alerts appends for one prediction, in order.
PointAlerts(pred) ==
    LET demand == pred.predicted_demand
        high == IF demand > CriticalDemand
                THEN <<ForecastAlert("critical", "High Demand", pred)>>
                ELSE IF demand > WarningDemand
                THEN <<ForecastAlert("warning", "Peak Warning", pred)>>
                ELSE <<>>
        low == IF demand < MaintenanceDemand /\ MaintenanceFrom <= pred.hour
                                             /\ pred.hour <= MaintenanceUntil
               THEN <<ForecastAlert("info", "Maintenance Window", pred)>>
               ELSE <<>>
    IN  high \o low

\* generate_alerts(predictions)
RECURSIVE GenerateAlerts(_)
GenerateAlerts(predictions) ==
    IF predictions = <<>> THEN <<>>
    ELSE PointAlerts(Head(predictions)) \o GenerateAlerts(Tail(predictions))

\* The alert GET /ai/alerts appends for one prediction; demand_mw is
\* round(demand, 0), in MW.
RoutePointAlerts(pred) ==
    LET demand == pred.predicted_demand
    IN  IF demand > CriticalDemand
        THEN <<[type |-> "critical", hour |-> pred.hour,
                demand_mw |-> RoundHalfEven(demand, 100)]>>
        ELSE IF demand > RouteWarningDemand
        THEN <<[type |-> "warning", hour |-> pred.hour,
                demand_mw |-> RoundHalfEven(demand, 100)]>>
        ELSE <<>>

RECURSIVE RouteAlerts(_)
RouteAlerts(predictions) ==
    IF predictions = <<>> THEN <<>>
    ELSE RoutePointAlerts(Head(predictions)) \o RouteAlerts(Tail(predictions))

\* get_predictor() of ai_insights.py: a fresh AdvancedDemandPredictor per
\* request.  ml_importable FALSE is the package ml not being importable, so
\* that the import of the fallback raises too; a model.pkl that does not
\* load raises out of the constructor.
InsightsPredictorRaises == ~ml_importable \/ (model_file.exists /\ ~model_file.loads)

\* predictor.predict_24h(base_temperature=25.0) of a fresh predictor
InsightsPredictions(now) ==
    AdvPredict24h(AdvLoadModels(model_file, scaler_file), ReferenceTemperature,
                  now.hour, now.weekday, now.month)

\* AdvancedDemandPredictor.generate_alerts on the instance's own 24-hour
\* forecast
GenerateAlertsCall(base_temp, start) ==
    /\ pc = "idle"
    /\ advanced.constructed
    /\ LET predictions == AdvPredict24h(advanced, base_temp, start.hour,
                                        start.weekday, start.month)
       IN  resp' = [status |-> 200, predictions |-> predictions,
                    alerts |-> GenerateAlerts(predictions)]
    /\ pc' = "generate_alerts"
    /\ call' = [base_temp |-> base_temp, start |-> start]
    /\ UNCHANGED <<disk, app, advanced, beside_forecasting>>

\* GET /ai/alerts at time now
GetPeakAlerts(now) ==
    /\ pc = "idle"
    /\ resp' = IF InsightsPredictorRaises THEN [status |-> 500]
               ELSE LET predictions == InsightsPredictions(now)
                        alerts == RouteAlerts(predictions)
                    IN  [status |-> 200, predictions |-> predictions,
                         alerts |-> alerts, alert_count |-> Len(alerts),
                         critical_count |->
                            Len(SelectSeq(alerts, LAMBDA a : a.type = "critical"))]
    /\ pc' = "get_peak_alerts"
    /\ call' = [base_temp |-> ReferenceTemperature, start |-> now]
    /\ UNCHANGED <<disk, app, advanced, beside_forecasting>>

\* One AIInsight: category and severity, and the numbers of its message
\* (value at `at`, a window until `until`; -1 where the message has none).
Insight(category, severity, value, at, until) ==
    [category |-> category, severity |-> severity, value |-> value, at |-> at,
     until |-> until]

PeakCritical == 480000              \* peak_demand > 4800, in cMW
PeakWarning == 420000               \* peak_demand > 4200
AboveAveragePercent == 115          \* current_demand > avg_demand * 1.15
LowMarginTenths == 11               \* d < min_demand * 1.1

\* low_hours: the zero-based positions of the demands below 1.1 * min
LowHours(demands) ==
    LET low == {i \in 0..(Len(demands) - 1) :
                   demands[i + 1] * 10 < MinSeq(demands) * LowMarginTenths}
    IN  [first |-> IF low = {} THEN -1 ELSE CHOOSE i \in low : \A j \in low : i <= j,
         last |-> IF low = {} THEN -1 ELSE CHOOSE i \in low : \A j \in low : i >= j,
         positions |-> low]

\* round(0.87 + 0.05 * (1 - abs(hour - 14) / 14), 3), in thousandths
Efficiency(hour) == RoundHalfEven(870 * 14 + 50 * (14 - Abs(hour - 14)), 14)

DemandTrend(hour) ==
    IF 6 <= hour /\ hour <= 12 THEN "increasing"
    ELSE IF 12 <= hour /\ hour <= 19 THEN "peak"
    ELSE "decreasing"

\* The insights of GET /ai/insights at hour `hour` over the demands
InsightsOf(demands, hour) ==
    LET peak_demand == MaxSeq(demands)
        peak_hour == IndexOf(demands, peak_demand)
        min_demand == MinSeq(demands)
        current_demand == demands[hour + 1]
        low == LowHours(demands)
        peak == IF peak_demand > PeakCritical
                THEN <<Insight("Critical Peak Alert", "critical", peak_demand, peak_hour, -1)>>
                ELSE IF peak_demand > PeakWarning
                THEN <<Insight("High Demand Warning", "warning", peak_demand, peak_hour, -1)>>
                ELSE <<>>
        above == IF current_demand * Len(demands) * 100 > SumSeq(demands) * AboveAveragePercent
                 THEN <<Insight("Above Average", "warning", current_demand, hour, -1)>>
                 ELSE <<>>
        window == IF low.positions # {}
                  THEN <<Insight("Maintenance Window", "info", min_demand, low.first,
                                 low.last + 1)>>
                  ELSE <<>>
    IN  peak \o above \o window
        \o <<Insight("Weather Impact", "info", -1, -1, -1),
             Insight("Grid Efficiency", "info", Efficiency(hour), -1, -1)>>

\* GET /ai/insights at time now
GetAIInsights(now) ==
    /\ pc = "idle"
    /\ resp' = IF InsightsPredictorRaises THEN [status |-> 500]
               ELSE LET predictions == InsightsPredictions(now)
                    IN  [status |-> 200, predictions |-> predictions,
                         insights |-> InsightsOf(DemandsOf(predictions), now.hour),
                         demand_trend |-> DemandTrend(now.hour),
                         efficiency_score |-> Efficiency(now.hour)]
    /\ pc' = "get_ai_insights"
    /\ call' = [base_temp |-> ReferenceTemperature, start |-> now]
    /\ UNCHANGED <<disk, app, advanced, beside_forecasting>>

----------------------------------------------------------------------------
(* Alert configuration (app/routes/alerts.py)                              *)

\* AlertConfig()
DefaultAlertConfig ==
    [email_enabled |-> TRUE, sms_enabled |-> FALSE, push_enabled |-> TRUE,
     email_recipients |-> <<>>, sms_recipients |-> <<>>, min_severity |-> "warning"]

----------------------------------------------------------------------------
(* Current weather (app/routes/external_data.py)                           *)

WeatherCacheSeconds == 1800         \* WEATHER_CACHE_MINUTES = 30
MaxQuarters == 3                    \* quarters of an hour considered

\* Two of ETHIOPIAN_CITIES, and their base_temps
KnownCities == {"Addis Ababa", "Dire Dawa"}
base_temps == [c \in KnownCities |-> IF c = "Addis Ababa" THEN 18 ELSE 28]

\* A weather record; temperatures in tenths of a degree.
WeatherRecord(city, temperature, source, timestamp) ==
    [city |-> city, temperature_c |-> temperature, feels_like_c |-> temperature - 10,
     source |-> source, timestamp |-> timestamp]

NoWeather == WeatherRecord("None", 0, "None", 0)

\* _weather_cache = {}
EmptyWeatherCache == [c \in KnownCities |-> [cached |-> FALSE, data |-> NoWeather, timestamp |-> 0]]

\* What the outbound call can do: raise (error is "network" or "timeout"),
\* or answer with a status and a body; a body is JSON or not, has every key
\* the handler reads or not, and has numbers for the temperatures it rounds
\* or not.  temp is data["main"]["temp"], in tenths.
Outcome(error, status, json, complete, numeric, temp) ==
    [error |-> error, status |-> status,
     body |-> [json |-> json, complete |-> complete, numeric |-> numeric, temp |-> temp]]

ApiOutcomes ==
    { Outcome("network", 0, FALSE, FALSE, FALSE, 0),
      Outcome("timeout", 0, FALSE, FALSE, FALSE, 0),
      Outcome("none", 500, TRUE, TRUE, TRUE, 215),
      Outcome("none", 401, TRUE, FALSE, FALSE, 0),
      Outcome("none", 200, FALSE, FALSE, FALSE, 0),
      Outcome("none", 200, TRUE, FALSE, FALSE, 0),
      Outcome("none", 200, TRUE, TRUE, FALSE, 0),
      Outcome("none", 200, TRUE, TRUE, TRUE, 215),
      Outcome("none", 200, TRUE, TRUE, TRUE, 304) }

\* A fetch that ignores the status of the response
FetchSucceedsAnyStatus(o) ==
    o.error = "none" /\ o.body.json /\ o.body.complete /\ o.body.numeric

\* Lines 90-126 reach `return weather`: the call returns, the status is 200,
\* response.json() parses, every key read is there and round() gets numbers.
FetchSucceeds(o) ==
    /\ o.error = "none"
    /\ o.status = 200
    /\ o.body.json /\ o.body.complete /\ o.body.numeric

\* get_simulated_weather at hour `hour`; jitter is random.uniform(-2, 2) in
\* tenths of a degree.
SimulatedWeather(city, hour, jitter, now) ==
    WeatherRecord(city, (base_temps[city] + temp_variation[hour]) * 10 + jitter,
                  "simulated", now)

\* A cache whose records do not age
CacheFilled(city, now) == weather_cache[city].cached

\* The cached record is still fresh: cache_age < WEATHER_CACHE_MINUTES.
CacheFresh(city, now) ==
    weather_cache[city].cached /\ now - weather_cache[city].timestamp < WeatherCacheSeconds

\* GET /external/weather/current/{city} at hour `hour`, when the outbound
\* call, if made, ends as outcome o.
GetCurrentWeather(city, hour, o, jitter) ==
    /\ pc = "idle"
    /\ IF city \notin KnownCities
       THEN /\ resp' = [status |-> 404, called |-> FALSE, weather |-> NoWeather]
            /\ UNCHANGED weather_cache
       ELSE IF CacheFresh(city, clock)
       THEN /\ resp' = [status |-> 200, called |-> FALSE,
                        weather |-> weather_cache[city].data]
            /\ UNCHANGED weather_cache
       ELSE IF ~api_key
       THEN /\ resp' = [status |-> 200, called |-> FALSE,
                        weather |-> SimulatedWeather(city, hour, jitter, clock)]
            /\ UNCHANGED weather_cache
       ELSE IF FetchSucceeds(o)
       THEN LET fetched == WeatherRecord(city, o.body.temp, "openweathermap", clock)
            IN  /\ resp' = [status |-> 200, called |-> TRUE, weather |-> fetched]
                /\ weather_cache' = [weather_cache EXCEPT ![city] =
                        [cached |-> TRUE, data |-> fetched, timestamp |-> clock]]
       ELSE /\ resp' = [status |-> 200, called |-> TRUE,
                        weather |-> SimulatedWeather(city, hour, jitter, clock)]
            /\ UNCHANGED weather_cache
    /\ pc' = "get_current_weather"
    /\ call' = [city |-> city, hour |-> hour, outcome |-> o, jitter |-> jitter, now |-> clock]
    /\ UNCHANGED <<beside_weather, api_key, clock>>

\* A quarter of an hour, half the life of a cached record, passes.
Wait ==
    /\ clock < MaxQuarters * (WeatherCacheSeconds \div 2)
    /\ clock' = clock + WeatherCacheSeconds \div 2
    /\ UNCHANGED <<beside_weather, weather, pc, call, resp>>

----------------------------------------------------------------------------
(* Households (app/routes/households.py)                                   *)

TariffBirrPerKwh == 275             \* TARIFF_BIRR_PER_KWH = 2.75, in hundredths

\* An estimate that counts every appliance as one
CalculateConsumptionFlat(household_data) ==
    50 + household_data.num_people * 30 + household_data.num_rooms * 20
       + (IF household_data.has_ac THEN 150 ELSE 0)
       + (IF household_data.has_heater THEN 100 ELSE 0)
       + (IF household_data.has_ev THEN 200 ELSE 0)
       + (IF household_data.appliances = <<>> THEN 0 ELSE 15)

\* calculate_consumption, in kWh: a sum of whole numbers, which round(total, 2)
\* keeps
CalculateConsumption(household_data) ==
    50 + household_data.num_people * 30 + household_data.num_rooms * 20
       + (IF household_data.has_ac THEN 150 ELSE 0)
       + (IF household_data.has_heater THEN 100 ELSE 0)
       + (IF household_data.has_ev THEN 200 ELSE 0)
       + Len(household_data.appliances) * 15

\* round(estimated_kwh * TARIFF_BIRR_PER_KWH, 2), in hundredths of a Birr
EstimatedCost(estimated_kwh) == RoundHalfEven(estimated_kwh * TariffBirrPerKwh, 1)

\* Household(**household_data, estimated_monthly_kwh=, estimated_monthly_cost=)
\* as inserted with id `id`
HouseholdDocument(id, household_data) ==
    [id |-> id, name |-> household_data.name, region |-> household_data.region,
     num_people |-> household_data.num_people, num_rooms |-> household_data.num_rooms,
     has_ac |-> household_data.has_ac, has_heater |-> household_data.has_heater,
     has_ev |-> household_data.has_ev, appliances |-> household_data.appliances,
     estimated_monthly_kwh |-> CalculateConsumption(household_data),
     estimated_monthly_cost |-> EstimatedCost(CalculateConsumption(household_data))]

\* Household.get(household_id): the documents with this id, none or one
HouseholdGet(household_id) ==
    SelectSeq(households.documents, LAMBDA h : h.id = household_id)

\* POST /households/
CreateHousehold(household) ==
    /\ pc = "idle"
    /\ households.next_id <= MaxHouseholds
    /\ LET db_household == HouseholdDocument(households.next_id, household)
       IN  /\ households' = [next_id |-> households.next_id + 1,
                             documents |-> Append(households.documents, db_household)]
           /\ resp' = [status |-> 200, households |-> <<db_household>>]
    /\ pc' = "create_household"
    /\ call' = household
    /\ UNCHANGED beside_housing

\* GET /households/
ListHouseholds ==
    /\ pc = "idle"
    /\ resp' = [status |-> 200, households |-> households.documents]
    /\ pc' = "list_households"
    /\ call' = NoResp
    /\ UNCHANGED <<beside_housing, housing>>

\* GET /households/{household_id}
GetHousehold(household_id) ==
    /\ pc = "idle"
    /\ resp' = [status |-> IF HouseholdGet(household_id) = <<>> THEN 404 ELSE 200,
                households |-> HouseholdGet(household_id)]
    /\ pc' = "get_household"
    /\ call' = [household_id |-> household_id]
    /\ UNCHANGED <<beside_housing, housing>>

\* DELETE /households/{household_id}
DeleteHousehold(household_id) ==
    /\ pc = "idle"
    /\ IF HouseholdGet(household_id) = <<>>
       THEN /\ resp' = [status |-> 404]
            /\ UNCHANGED households
       ELSE /\ households' = [households EXCEPT !.documents =
                                SelectSeq(@, LAMBDA h : h.id # household_id)]
            /\ resp' = [status |-> 200]
    /\ pc' = "delete_household"
    /\ call' = [household_id |-> household_id]
    /\ UNCHANGED beside_housing

\* GET /households/analytics/summary; the average in hundredths of a kWh
GetHouseholdAnalytics ==
    /\ pc = "idle"
    /\ LET docs == households.documents
           total == Len(docs)
           total_pop == SumSeq([i \in 1..total |-> docs[i].num_people])
           total_kwh == SumSeq([i \in 1..total |-> docs[i].estimated_monthly_kwh])
       IN  resp' = IF total = 0
                   THEN [status |-> 200, total_households |-> 125000,
                         total_population |-> 625000, avg_consumption_kwh |-> 18050]
                   ELSE [status |-> 200, total_households |-> total,
                         total_population |-> total_pop,
                         avg_consumption_kwh |-> RoundHalfEven(total_kwh * 100, total)]
    /\ pc' = "get_household_analytics"
    /\ call' = NoResp
    /\ UNCHANGED <<beside_housing, housing>>

----------------------------------------------------------------------------
(* Pattern recompute, statement by statement (ml/predict.py, forecast.py)  *)

\* The pattern table of a DemandPredictor
TableOf(self) ==
    [base_demand |-> self.base_demand, hour_factors |-> self.hour_factors,
     day_factors |-> self.day_factors, temp_coef |-> self.temp_coef,
     data_patterns |-> self.data_patterns]

\* _load_data_patterns takes the data branch (lines 57-86) or sets the
\* defaults (lines 53, 88, 91).
PatternPath(dfile) ==
    IF dfile.exists /\ dfile.readable /\ Len(dfile.rows) > 0 THEN "data" ELSE "defaults"

\* The step-th assignment of the branch: lines 57, 60-65, 68-73, 76-83, 85
\* of _load_data_patterns, or lines 96, 97-102, 103, 104, 105 of
\* _set_default_patterns.
PatternStatement(self, dfile, path, step) ==
    IF path = "data"
    THEN CASE step = 1 -> [self EXCEPT !.base_demand = DemandMean(dfile.rows)]
           [] step = 2 -> [self EXCEPT !.hour_factors = HourFactorsOf(dfile.rows)]
           [] step = 3 -> [self EXCEPT !.day_factors = DayFactorsOf(dfile.rows)]
           [] step = 4 -> [self EXCEPT !.temp_coef = DefaultTempCoef]
           [] OTHER -> [self EXCEPT !.data_patterns = "True"]
    ELSE CASE step = 1 -> [self EXCEPT !.base_demand = DefaultBaseDemand]
           [] step = 2 -> [self EXCEPT !.hour_factors = DefaultHourFactors]
           [] step = 3 -> [self EXCEPT !.day_factors = DefaultDayFactors]
           [] step = 4 -> [self EXCEPT !.temp_coef = DefaultTempCoef]
           [] OTHER -> [self EXCEPT !.data_patterns = "False"]

PatternStatements == 5

\* A scheduler that runs a request at any point of another handler
AwaitingAnywhere(at) == at \in {"idle", "load_data_patterns"}

\* The event loop starts a request only when no handler is running: every
\* handler is an `async def` on one loop, and between the first assignment
\* of a recompute and its last there is no await.
Awaiting(at) == at = "idle"

\* An upload without a 'demand' column
NoDemandColumn == [exists |-> TRUE, readable |-> FALSE, rows |-> <<>>]

\* The position of a recompute: the handler it runs in, the branch, the next
\* assignment, and the assignment of the data branch that raises (0: none).
Recomputing(handler, path, raises_at) ==
    [handler |-> handler, path |-> path, step |-> 1, raises_at |-> raises_at]

\* POST /upload of a CSV file, up to the call of reload_patterns: the file
\* is backed up, the rows are appended to it, the caches are dropped, the
\* model is not retrained (fewer than 10 records), and get_predictor builds
\* a new predictor.  Uploads are more than a second apart.
UploadData(file, raises_at) ==
    /\ Awaiting(pc)
    /\ data_mtime < MaxWrites
    /\ Len(backups) < MaxWrites
    /\ Len(data_file.rows) + Len(file.rows) <= MaxRows
    /\ call' = IF file.readable /\ (data_file.exists => data_file.readable) /\ ml_importable
               THEN Recomputing("upload_data", PatternPath(CsvFile(data_file.rows \o file.rows)),
                                raises_at)
               ELSE [file |-> file]
    /\ IF ~file.readable
       THEN /\ resp' = [status |-> 400]
            /\ pc' = "upload_data"
            /\ UNCHANGED <<data_file, data_mtime, backups, app>>
       ELSE IF data_file.exists /\ ~data_file.readable
       THEN /\ backups' = Append(backups, data_file)
            /\ resp' = [status |-> 500]
            /\ pc' = "upload_data"
            /\ UNCHANGED <<data_file, data_mtime, app>>
       ELSE LET written == CsvFile(data_file.rows \o file.rows)
                ld == LoadData(written, data_mtime + 1, NoCache, -1)
            IN  /\ backups' = IF data_file.exists THEN Append(backups, data_file) ELSE backups
                /\ data_file' = written
                /\ data_mtime' = data_mtime + 1
                /\ IF ml_importable
                   THEN /\ predictor' = NewDemandPredictor(written, model_file, scaler_file)
                        /\ data_cache' = NoCache
                        /\ last_data_load' = -1
                        /\ pc' = "load_data_patterns"
                        /\ resp' = NoResp
                   ELSE /\ predictor' = ComputePatterns(ld.cache)
                        /\ data_cache' = ld.cache
                        /\ last_data_load' = ld.last
                        /\ pc' = "upload_data"
                        /\ resp' = [status |-> 200, records_processed |-> Len(file.rows)]
    /\ UNCHANGED <<artifacts, ml_importable, advanced, beside_forecasting>>

\* reload_patterns called on the instance, up to its first assignment of a
\* pattern
ReloadPatternsBegin(raises_at) ==
    /\ Awaiting(pc)
    /\ predictor.kind = "DemandPredictor"
    /\ predictor' = LoadModel(predictor, model_file, scaler_file)
    /\ pc' = "load_data_patterns"
    /\ call' = Recomputing("reload_patterns", PatternPath(data_file), raises_at)
    /\ resp' = NoResp
    /\ UNCHANGED <<disk, data_cache, last_data_load, advanced, beside_forecasting>>

\* The next assignment of the running recompute; an assignment that raises
\* is caught at line 89 and the defaults are set; after the last assignment
\* the handler returns.
LoadPatternsStep ==
    /\ pc = "load_data_patterns"
    /\ IF call.path = "data" /\ call.step = call.raises_at
       THEN /\ call' = Recomputing(call.handler, "defaults", 0)
            /\ UNCHANGED <<predictor, pc, resp>>
       ELSE /\ predictor' = PatternStatement(predictor, data_file, call.path, call.step)
            /\ IF call.step < PatternStatements
               THEN /\ call' = [call EXCEPT !.step = @ + 1]
                    /\ UNCHANGED <<pc, resp>>
               ELSE /\ pc' = call.handler
                    /\ resp' = [status |-> 200]
                    /\ call' = NoResp
    /\ UNCHANGED <<disk, data_cache, last_data_load, advanced, beside_forecasting>>

\* A predict call the loop starts: the demand, and the table it was
\* computed with
PredictRequest(a) ==
    /\ Awaiting(pc)
    /\ predictor.kind = "DemandPredictor"
    /\ resp' = [status |-> 200, demand |-> Predict(predictor, a),
                table |-> TableOf(predictor)]
    /\ pc' = "predict_request"
    /\ call' = a
    /\ UNCHANGED <<disk, app, advanced, beside_forecasting>>

----------------------------------------------------------------------------
(* LSTM predictor (ml/models/lstm_predictor.py)                            *)

HoursAhead == 24                    \* hours_ahead: int = 24
ConfidenceStart == 950              \* 0.95, in thousandths
ConfidenceStep == 10                \* 0.01 a forecast hour
ConfidenceFloor == 700              \* 0.7

\* predict_with_confidence at hour current_hour: the hour and the confidence
\* of every point, in thousandths; the demand of a point is a draw around
\* the pattern and its bounds follow from it, and they are left out.
PredictWithConfidence(current_hour) ==
    [k \in 1..HoursAhead |->
        [hour |-> (current_hour + k - 1) % 24,
         confidence |-> Max(ConfidenceFloor, ConfidenceStart - (k - 1) * ConfidenceStep)]]

\* LSTMPredictor.predict_with_confidence(recent_demand) called at hour
\* current_hour
PredictWithConfidenceCall(current_hour) ==
    /\ pc = "idle"
    /\ resp' = [status |-> 200, predictions |-> PredictWithConfidence(current_hour)]
    /\ pc' = "predict_with_confidence"
    /\ call' = [current_hour |-> current_hour]
    /\ UNCHANGED <<forecasting, beside_forecasting>>

----------------------------------------------------------------------------
(* Inputs of the calls                                                     *)

\* Data files of full length, or none, or one that cannot be read.
FullDataFiles ==
    {MissingData, UnreadableData} \cup {CsvFile(rows) : rows \in [1..MaxRows -> RowKinds]}

\* Artifacts as training leaves them: both saved, or neither.
TrainedArtifacts ==
    {<<MissingModel, FALSE>>} \cup {<<f, TRUE>> : f \in ModelFiles \ {MissingModel}}

PredictArgs ==
    { [temperature |-> t, hour |-> h, day_of_week |-> d, month |-> m,
       humidity |-> hu, is_holiday |-> ho] :
        t \in Temperatures, h \in Hours \cup {24}, d \in {0, 2, 6}, m \in {6, 13},
        hu \in {DefaultHumidity, 80}, ho \in {0, 1} }

AdvPredictArgs ==
    { [temperature |-> t, hour |-> h, day_of_week |-> d, month |-> m,
       humidity |-> hu, population |-> po, use_ml |-> ml] :
        t \in Temperatures, h \in Hours \cup {24}, d \in {2, 6}, m \in {6, 13},
        hu \in {DefaultHumidity, 80}, po \in {0, 115}, ml \in BOOLEAN }

Requests ==
    { [temperature |-> t, hour |-> h, day_of_week |-> d, month |-> m] :
        t \in {ReferenceTemperature, HotAbove}, h \in {-1, 0, 12, 23, 24, 25},
        d \in {-1, 0, 2, 6, 7}, m \in {0, 1, 6, 12, 13} }

Clock == { [hour |-> h, weekday |-> d, month |-> m] : h \in Hours, d \in Days, m \in {6, 12} }

\* The start of an hourly horizon: hour, weekday, month.
Starts == { [hour |-> h, weekday |-> 6, month |-> 12] : h \in Hours }

\* The first day of a weekly horizon: weekday, month, days left in the month.
Dates == { [weekday |-> d, month |-> 12, left |-> l] : d \in Days, l \in {3, 31} }

\* A few arguments, for the runs in which the files change.
FewPredictArgs ==
    { [temperature |-> t, hour |-> h, day_of_week |-> 2, month |-> 6,
       humidity |-> DefaultHumidity, is_holiday |-> 0] :
        t \in {ReferenceTemperature, HotAbove}, h \in {3, 12} }

FewAdvPredictArgs ==
    { [temperature |-> t, hour |-> 12, day_of_week |-> 2, month |-> 6,
       humidity |-> DefaultHumidity, population |-> 0, use_ml |-> TRUE] :
        t \in {ReferenceTemperature, HotAbove} }

FewClock == { [hour |-> h, weekday |-> 2, month |-> 6] : h \in {3, 12} }

\* Demands at every half percent of the capacity, 0 to MaxLevel/2 %.
CheckArgs ==
    { [demand_mw |-> (c * k) \div 200, capacity_mw |-> c] :
        c \in {DefaultCapacity, 200}, k \in 0..MaxLevel }

----------------------------------------------------------------------------
(* Specification of single predictions: the files are as the process finds *)
(* them and do not change.                                                 *)

InitApp ==
    /\ data_mtime = 0
    /\ predictor = NoPredictor
    /\ data_cache = NoCache
    /\ last_data_load = -1
    /\ advanced = NoAdvanced
    /\ alerts_db = SampleAlerts
    /\ clock = 0
    /\ alert_config = DefaultAlertConfig
    /\ alert_subscriptions = {}
    /\ weather_cache = EmptyWeatherCache
    /\ households = [next_id |-> 1, documents |-> <<>>]
    /\ users = <<>>
    /\ tokens_db = <<>>
    /\ issued = 0
    /\ requests = EmptyBag
    /\ pc = "idle"
    /\ call = NoResp
    /\ resp = NoResp

Init ==
    /\ data_file \in FullDataFiles
    /\ \E art \in TrainedArtifacts : model_file = art[1] /\ scaler_file = art[2]
    /\ ml_importable \in BOOLEAN
    /\ backups = <<>>
    /\ api_key = FALSE
    /\ InitApp

Next ==
    \/ pc = "idle" /\ \E now \in Clock : GetForecast(now)
    \/ pc = "idle" /\ \E req \in Requests : PostForecast(req)
    \/ pc = "idle" /\ \E a \in PredictArgs : PredictCall(a)
    \/ AdvNew
    \/ pc = "idle" /\ \E a \in AdvPredictArgs : AdvPredictCall(a)
    \/ Return

Spec == Init /\ [][Next]_vars

----------------------------------------------------------------------------
(* Specification of the forecast horizons                                  *)

NextHorizon ==
    \/ pc = "idle" /\ \E t \in Temperatures, s \in Starts : Get24hForecast(t, s)
    \/ pc = "idle" /\ \E s \in Starts : GetAnalytics(s)
    \/ pc = "idle" /\ \E t \in Temperatures, s \in Starts : PredictNext24hCall(t, s)
    \/ pc = "idle" /\ \E t \in Temperatures, s \in Dates : PredictWeeklyCall(t, s)
    \/ AdvNew
    \/ pc = "idle" /\ \E t \in Temperatures, s \in Starts : AdvPredict24hCall(t, s)
    \/ pc = "idle" /\ \E t \in Temperatures, s \in Dates : AdvPredictWeeklyCall(t, s)
    \/ pc = "idle" /\ \E h \in Hours : PredictWithConfidenceCall(h)
    \/ Return

SpecHorizon == Init /\ [][NextHorizon]_vars

----------------------------------------------------------------------------
(* Specification of recomputation: the data file and the artifacts change  *)
(* under the predictors.                                                   *)

InitRecompute ==
    /\ data_file \in DataFiles
    /\ \E art \in TrainedArtifacts : model_file = art[1] /\ scaler_file = art[2]
    /\ ml_importable \in BOOLEAN
    /\ backups \in {<<>>} \cup {<<f>> : f \in FullDataFiles \ {MissingData, UnreadableData}}
                          \cup {<<CsvFile(<<>>)>>}
    /\ api_key = FALSE
    /\ InitApp

NextRecompute ==
    \/ pc = "idle" /\ \E now \in FewClock : GetForecast(now)
    \/ pc = "idle" /\ \E a \in FewPredictArgs : PredictCall(a)
    \/ PredictAgain
    \/ ReloadPatternsCall
    \/ ReloadDataCall
    \/ ResetData
    \/ \E m \in MLModels : SaveModel(m)
    \/ AdvNew
    \/ pc = "idle" /\ \E a \in FewAdvPredictArgs : AdvPredictCall(a)
    \/ AdvPredictAgain
    \/ Return

SpecRecompute == InitRecompute /\ [][NextRecompute]_vars

----------------------------------------------------------------------------
(* Specification of the alert evaluator                                    *)

InitAlerts ==
    /\ data_file = MissingData
    /\ model_file = MissingModel
    /\ scaler_file = FALSE
    /\ ml_importable = TRUE
    /\ backups = <<>>
    /\ api_key = FALSE
    /\ InitApp

NextAlerts ==
    \/ pc = "idle" /\ \E a \in CheckArgs : CheckThresholdsCall(a.demand_mw, a.capacity_mw)
    \/ pc = "idle" /\ \E a \in CheckArgs : CheckDemand(a.demand_mw)
    \/ Tick
    \/ Return

SpecAlerts == InitAlerts /\ [][NextAlerts]_vars

----------------------------------------------------------------------------
(* Specification of the alert operations of one second                     *)

\* Demands below the warning threshold, and in the critical tier
FewDemands == {6000, 8000}

CreateRequests == {[type |-> "anomaly", severity |-> "info", title |-> "voltage dip"]}

\* The ids of the alerts in alerts_db and one that was never given out
AlertIds == {alerts_db[i].id : i \in 1..Len(alerts_db)} \cup {[stamp |-> "20240101", n |-> 1]}

Users == {"operator"}

AlertFilters ==
    { [severity |-> None, alert_type |-> None, acknowledged |-> NoFilter, limit |-> 50],
      [severity |-> "info", alert_type |-> None,
       acknowledged |-> [given |-> TRUE, value |-> FALSE], limit |-> 1],
      [severity |-> None, alert_type |-> "peak_demand", acknowledged |-> NoFilter,
       limit |-> 50] }

AlertConfigs == {[DefaultAlertConfig EXCEPT !.push_enabled = FALSE]}

Emails == {"grid@eeu.gov.et"}

NextAlertOps ==
    \/ pc = "idle" /\ Len(alerts_db) < MaxStored /\ \E r \in CreateRequests : CreateAlert(r)
    \/ pc = "idle" /\ Len(alerts_db) < MaxStored /\ \E d \in FewDemands : CheckDemand(d)
    \/ pc = "idle" /\ \E id \in AlertIds, u \in Users : AcknowledgeAlert(id, u)
    \/ pc = "idle" /\ \E id \in AlertIds : DeleteAlert(id)
    \/ pc = "idle" /\ \E f \in AlertFilters :
           GetAlerts(f.severity, f.alert_type, f.acknowledged, f.limit)
    \/ pc = "idle" /\ GetAlertsSummary
    \/ pc = "idle" /\ GetAlertConfig
    \/ pc = "idle" /\ \E c \in AlertConfigs : UpdateAlertConfig(c)
    \/ pc = "idle" /\ \E e \in Emails : SubscribeToAlerts(e)
    \/ pc = "idle" /\ \E e \in Emails : UnsubscribeFromAlerts(e)
    \/ Return

SpecAlertOps == InitAlerts /\ [][NextAlertOps]_vars

----------------------------------------------------------------------------
(* Specification of the forecast alerts                                    *)

\* The start of a forecast that is evaluated for alerts
InsightStarts == { [hour |-> h, weekday |-> 2, month |-> m] : h \in Hours, m \in {4, 7} }

InitInsights ==
    /\ data_file = MissingData
    /\ \E art \in TrainedArtifacts : model_file = art[1] /\ scaler_file = art[2]
    /\ ml_importable \in BOOLEAN
    /\ backups = <<>>
    /\ api_key = FALSE
    /\ InitApp

NextInsights ==
    \/ AdvNew
    \/ pc = "idle" /\ \E t \in Temperatures, s \in InsightStarts : GenerateAlertsCall(t, s)
    \/ pc = "idle" /\ \E now \in InsightStarts : GetPeakAlerts(now)
    \/ pc = "idle" /\ \E now \in InsightStarts : GetAIInsights(now)
    \/ Return

SpecInsights == InitInsights /\ [][NextInsights]_vars

----------------------------------------------------------------------------
(* Specification of the weather route                                      *)

Cities == KnownCities \cup {"Nairobi"}
Jitters == {-20, 0, 13}

InitWeather ==
    /\ data_file = MissingData
    /\ model_file = MissingModel
    /\ scaler_file = FALSE
    /\ ml_importable = TRUE
    /\ backups = <<>>
    /\ api_key \in BOOLEAN
    /\ InitApp

NextWeather ==
    \/ pc = "idle" /\ \E city \in Cities, hour \in {3, 14}, o \in ApiOutcomes, j \in Jitters :
           GetCurrentWeather(city, hour, o, j)
    \/ Wait
    \/ Return

SpecWeather == InitWeather /\ [][NextWeather]_vars

----------------------------------------------------------------------------
(* Specification of the household routes                                   *)

HouseholdData(num_people, num_rooms, has_ac, has_heater, has_ev, appliances) ==
    [name |-> "Abebe", region |-> "Oromia", num_people |-> num_people,
     num_rooms |-> num_rooms, has_ac |-> has_ac, has_heater |-> has_heater,
     has_ev |-> has_ev, appliances |-> appliances]

HouseholdRequests ==
    { HouseholdData(1, 1, FALSE, FALSE, FALSE, <<>>),
      HouseholdData(4, 3, TRUE, FALSE, FALSE, <<>>),
      HouseholdData(2, 2, FALSE, TRUE, FALSE, <<"stove">>),
      HouseholdData(3, 1, FALSE, FALSE, TRUE, <<"stove", "fridge", "tv">>),
      HouseholdData(5, 4, TRUE, TRUE, TRUE, <<"stove", "fridge">>) }

\* The ids given so far and the next one, which no household has yet
HouseholdIds == 1..households.next_id

InitHouseholds ==
    /\ data_file = MissingData
    /\ model_file = MissingModel
    /\ scaler_file = FALSE
    /\ ml_importable = TRUE
    /\ backups = <<>>
    /\ api_key = FALSE
    /\ InitApp

NextHouseholds ==
    \/ pc = "idle" /\ \E h \in HouseholdRequests : CreateHousehold(h)
    \/ pc = "idle" /\ ListHouseholds
    \/ pc = "idle" /\ \E id \in HouseholdIds : GetHousehold(id)
    \/ pc = "idle" /\ \E id \in HouseholdIds : DeleteHousehold(id)
    \/ pc = "idle" /\ GetHouseholdAnalytics
    \/ Return

SpecHouseholds == InitHouseholds /\ [][NextHouseholds]_vars

----------------------------------------------------------------------------
(* Specification of the recompute, statement by statement                  *)

\* The assignment of the data branch that raises: none, the second, third or
\* fourth
RaisesAt == {0, 2, 3, 4}

Uploads == {NoDemandColumn} \cup {CsvFile(rows) : rows \in Datasets}

InitSwap ==
    /\ data_file \in {f \in DataFiles : Len(f.rows) < MaxRows}
    /\ model_file = MissingModel
    /\ scaler_file = FALSE
    /\ ml_importable \in BOOLEAN
    /\ backups = <<>>
    /\ api_key = FALSE
    /\ InitApp

NextSwap ==
    \/ \E file \in Uploads, r \in RaisesAt : UploadData(file, r)
    \/ \E r \in RaisesAt : ReloadPatternsBegin(r)
    \/ LoadPatternsStep
    \/ \E a \in FewPredictArgs : PredictRequest(a)
    \/ ResetData
    \/ Return

SpecSwap == InitSwap /\ [][NextSwap]_vars

----------------------------------------------------------------------------
(* Specification of the pattern tables                                     *)

\* A record of an hour without demand
IdleRow == [hour |-> 3, day_of_week |-> 6, temperature |-> 15, demand |-> 0]

PatternDatasets == UNION { [1..n -> RowKinds \cup {IdleRow}] : n \in 0..MaxRows }

InitPatterns ==
    /\ data_file \in {CsvFile(rows) : rows \in PatternDatasets}
    /\ model_file = MissingModel
    /\ scaler_file = FALSE
    /\ ml_importable \in BOOLEAN
    /\ backups = <<>>
    /\ api_key = FALSE
    /\ InitApp

NextPatterns ==
    \/ pc = "idle" /\ \E now \in FewClock : GetForecast(now)
    \/ ReloadPatternsCall
    \/ ReloadDataCall
    \/ Return

SpecPatterns == InitPatterns /\ [][NextPatterns]_vars

----------------------------------------------------------------------------
(* POST /upload as a whole (forecast.py 239-366).  After `await             *)
(* file.read()` the handler has no await, so it runs from validation to its *)
(* response without another handler in between.                             *)

\* train_model_from_data refuses fewer records than this
MinTrainingRecords == 10

\* The datetime cell of a frame: read_csv leaves the text of the file (line
\* 314), pd.to_datetime and pd.date_range give Timestamps (lines 275, 291).
\* A Timestamp never equals a str, so the two kinds of cell differ even for
\* the same instant.
TextCell(at) == <<"str", at>>
TimestampCell(at) == <<"Timestamp", at>>

\* pd.read_csv(DATA_FILE): the frame of the stored rows
ExistingFrame(rows) == [k \in 1..Len(rows) |-> [rows[k] EXCEPT !.datetime = TextCell(@)]]

\* The frame of the uploaded rows after lines 274-301
UploadedFrame(rows) == [k \in 1..Len(rows) |-> [rows[k] EXCEPT !.datetime = TimestampCell(@)]]

\* drop_duplicates(subset=['datetime'], keep='last'): a row stays when no
\* later row has an equal datetime cell
RECURSIVE DropDuplicatesLast(_)
DropDuplicatesLast(frame) ==
    IF frame = <<>> THEN <<>>
    ELSE LET rest == Tail(frame)
         IN  IF \E j \in 1..Len(rest) : rest[j].datetime = Head(frame).datetime
             THEN DropDuplicatesLast(rest)
             ELSE <<Head(frame)>> \o DropDuplicatesLast(rest)

\* to_csv: every datetime cell is written as its text
ToCsv(frame) == [k \in 1..Len(frame) |-> [frame[k] EXCEPT !.datetime = @[2]]]

\* The rows lines 313-323 write: the de-duplicated concatenation when the
\* data file exists, the uploaded frame as it is when it does not
WrittenRows(dfile, rows) ==
    IF dfile.exists
    THEN ToCsv(DropDuplicatesLast(ExistingFrame(dfile.rows) \o UploadedFrame(rows)))
    ELSE ToCsv(UploadedFrame(rows))

\* An uploaded file: its name ends in .csv or not, its content parses or
\* read_csv raises, it has a 'demand' column or not, and its rows
UploadFile(name_csv, parses, has_demand, rows) ==
    [name_csv |-> name_csv, parses |-> parses, has_demand |-> has_demand, rows |-> rows]

\* A validation that looks at the file name only
RejectsByName(file) == ~file.name_csv

\* Lines 257-258 and 265-271: the two validations that raise 400
Rejects(file) == ~file.name_csv \/ (file.parses /\ ~file.has_demand)

\* train_model_from_data: False when ml.train cannot be imported, when there
\* are fewer than 10 records or when anything raises; else the fitted model
\* and its scaler are saved
TrainModelFromData(rows, fitted, fit_raises) ==
    IF ~ml_importable \/ Len(rows) < MinTrainingRecords \/ fit_raises
    THEN [success |-> FALSE, model |-> model_file, scaler |-> scaler_file]
    ELSE [success |-> TRUE,
          model |-> [exists |-> TRUE, loads |-> TRUE, object |-> fitted],
          scaler |-> TRUE]

\* upload_data(file); fitted is the model a fit gives and fit_raises whether
\* training raises
UploadCsv(file, fitted, fit_raises) ==
    /\ pc = "idle"
    /\ data_mtime < MaxWrites
    /\ Len(backups) < MaxWrites
    /\ Len(data_file.rows) + Len(file.rows) <= MaxRows
    /\ pc' = "upload_csv"
    /\ call' = [file |-> file, existing |-> data_file, model |-> model_file]
    /\ IF Rejects(file)
       THEN /\ resp' = [status |-> 400, message |-> "", records_processed |-> 0]
            /\ UNCHANGED <<data_file, data_mtime, model_file, scaler_file, backups, app>>
       ELSE IF ~file.parses
       THEN /\ resp' = [status |-> 500, message |-> "", records_processed |-> 0]
            /\ UNCHANGED <<data_file, data_mtime, model_file, scaler_file, backups, app>>
       ELSE IF data_file.exists /\ ~data_file.readable
       THEN /\ backups' = Append(backups, data_file)
            /\ resp' = [status |-> 500, message |-> "", records_processed |-> 0]
            /\ UNCHANGED <<data_file, data_mtime, model_file, scaler_file, app>>
       ELSE LET written == CsvFile(WrittenRows(data_file, file.rows))
                trained == TrainModelFromData(written.rows, fitted, fit_raises)
                ld == LoadData(written, data_mtime + 1, NoCache, -1)
            IN  /\ backups' = IF data_file.exists THEN Append(backups, data_file) ELSE backups
                /\ data_file' = written
                /\ data_mtime' = data_mtime + 1
                /\ model_file' = trained.model
                /\ scaler_file' = trained.scaler
                /\ IF ml_importable
                   THEN /\ predictor' =
                              ReloadPatterns(
                                  NewDemandPredictor(written, trained.model, trained.scaler),
                                  written, trained.model, trained.scaler)
                        /\ data_cache' = NoCache
                        /\ last_data_load' = -1
                   ELSE /\ predictor' = ComputePatterns(ld.cache)
                        /\ data_cache' = ld.cache
                        /\ last_data_load' = ld.last
                /\ resp' = [status |-> 200,
                            message |-> IF trained.success THEN "retrained"
                                        ELSE "pattern-based",
                            records_processed |-> Len(file.rows)]
    /\ UNCHANGED <<ml_importable, advanced, beside_forecasting>>

\* CSV records with a datetime column: two of the same hour, one of another
StampedRows ==
    { [datetime |-> 0, hour |-> 12, day_of_week |-> 2, temperature |-> 30, demand |-> 5000],
      [datetime |-> 0, hour |-> 12, day_of_week |-> 2, temperature |-> 30, demand |-> 3000],
      [datetime |-> 1, hour |-> 3, day_of_week |-> 6, temperature |-> 15, demand |-> 3000] }

StampedDatasets == UNION { [1..n -> StampedRows] : n \in 1..MaxRows }

UploadFiles ==
    {UploadFile(FALSE, TRUE, TRUE, rows) : rows \in StampedDatasets}
        \cup {UploadFile(TRUE, TRUE, FALSE, <<>>), UploadFile(TRUE, FALSE, FALSE, <<>>)}
        \cup {UploadFile(TRUE, TRUE, TRUE, rows) : rows \in StampedDatasets}

\* The models a fit may give
FittedModels == {m \in MLModels : ~m.raises}

InitUpload ==
    /\ data_file \in {MissingData, UnreadableData}
                        \cup {CsvFile(rows) : rows \in {r \in StampedDatasets : Len(r) < MaxRows}}
    /\ \E art \in TrainedArtifacts : model_file = art[1] /\ scaler_file = art[2]
    /\ ml_importable \in BOOLEAN
    /\ backups = <<>>
    /\ api_key = FALSE
    /\ InitApp

NextUpload ==
    \/ \E file \in UploadFiles, fitted \in FittedModels, fit_raises \in BOOLEAN :
            UploadCsv(file, fitted, fit_raises)
    \/ pc = "idle" /\ \E now \in FewClock : GetForecast(now)
    \/ Return

SpecUpload == InitUpload /\ [][NextUpload]_vars

----------------------------------------------------------------------------
(* Authentication (app/routes/auth.py, app/models/user.py).  A handler      *)
(* suspended at `await` waits in requests while other handlers run; a       *)
(* handler that answers leaves its name in pc, its arguments in call and    *)
(* its response in resp.                                                    *)

MaxUsers == 2           \* users inserted
MaxTokens == 2          \* tokens issued
MaxInFlight == 2        \* handlers suspended at an await

\* hash_password: the SHA-256 digest of the password
HashPassword(password) == <<"sha256", password>>

\* A document of the users collection; the collection has a plain index on
\* email, which does not refuse a second document of the same email
UserDocument(id, email, password) ==
    [id |-> id, email |-> email, password_hash |-> HashPassword(password)]

\* None where a user document is expected
NoUser == [id |-> 0, email |-> "", password_hash |-> <<>>]

\* User.find_one(User.email == email): the first document of that email
FindOneByEmail(email) ==
    IF \E i \in 1..Len(users) : users[i].email = email
    THEN users[CHOOSE i \in 1..Len(users) :
                  /\ users[i].email = email
                  /\ \A j \in 1..(i - 1) : users[j].email # email]
    ELSE NoUser

\* User.get(user_id)
UserGet(user_id) ==
    IF \E i \in 1..Len(users) : users[i].id = user_id
    THEN users[CHOOSE i \in 1..Len(users) : users[i].id = user_id]
    ELSE NoUser

\* A handler suspended at an await
Suspended(op, stage, email, password, token, user_id) ==
    [op |-> op, stage |-> stage, email |-> email, password |-> password,
     token |-> token, user_id |-> user_id]

\* The suspended handlers and one more, and without one of them
Suspend(waiting, h) == waiting (+) SetToBag({h})
Resume(waiting, h) == waiting (-) SetToBag({h})

AuthCall(email, password, token) == [email |-> email, password |-> password, token |-> token]

AuthError(status, detail) ==
    [status |-> status, detail |-> detail, access_token |-> 0, user |-> NoUser]

\* TokenResponse and UserResponse
AuthAnswer(token, user) ==
    [status |-> 200, detail |-> "", access_token |-> token, user |-> user]

\* A logout that ends every session
WithoutAnyToken(db, token) == <<>>

\* tokens_db without the token
WithoutToken(db, token) == [t \in DOMAIN db \ {token} |-> db[t]]

\* token in tokens_db
TokenKnown(token) == token \in DOMAIN tokens_db

\* register up to the answer of find_one: the handler then waits with what
\* the query found
RegisterFindOne(email, password) ==
    /\ BagCardinality(requests) < MaxInFlight
    /\ requests' = Suspend(requests,
                           Suspended("register", "found", email, password, 0,
                                     FindOneByEmail(email).id))
    /\ UNCHANGED <<users, tokens_db, issued, pc, call, resp, beside_accounts>>

\* register from the answer of find_one: 400 when a user was found, else
\* the new document is inserted and the handler waits for the insert
RegisterInsert(h) ==
    /\ h.op = "register" /\ h.stage = "found"
    /\ IF h.user_id # 0
       THEN /\ pc = "idle"
            /\ pc' = "register"
            /\ call' = AuthCall(h.email, h.password, 0)
            /\ resp' = AuthError(400, "Email already registered")
            /\ requests' = Resume(requests, h)
            /\ UNCHANGED users
       ELSE /\ Len(users) < MaxUsers
            /\ users' = Append(users, UserDocument(Len(users) + 1, h.email, h.password))
            /\ requests' = Suspend(Resume(requests, h),
                                   [h EXCEPT !.stage = "inserted",
                                             !.user_id = Len(users) + 1])
            /\ UNCHANGED <<pc, call, resp>>
    /\ UNCHANGED <<tokens_db, issued, beside_accounts>>

\* register after the insert: a new token is stored and answered
RegisterAnswer(h) ==
    /\ h.op = "register" /\ h.stage = "inserted"
    /\ pc = "idle"
    /\ issued < MaxTokens
    /\ issued' = issued + 1
    /\ tokens_db' = (issued + 1 :> h.user_id) @@ tokens_db
    /\ pc' = "register"
    /\ call' = AuthCall(h.email, h.password, 0)
    /\ resp' = AuthAnswer(issued + 1, UserGet(h.user_id))
    /\ requests' = Resume(requests, h)
    /\ UNCHANGED <<users, beside_accounts>>

\* login: after find_one answers the handler runs to its response; the
\* token it stores is new, so the order of other handlers in between does
\* not show
Login(email, password) ==
    /\ pc = "idle"
    /\ issued < MaxTokens
    /\ pc' = "login"
    /\ call' = AuthCall(email, password, 0)
    /\ LET user == FindOneByEmail(email)
       IN  IF user = NoUser \/ user.password_hash # HashPassword(password)
           THEN /\ resp' = AuthError(401, "Invalid email or password")
                /\ UNCHANGED <<tokens_db, issued>>
           ELSE /\ issued' = issued + 1
                /\ tokens_db' = (issued + 1 :> user.id) @@ tokens_db
                /\ resp' = AuthAnswer(issued + 1, user)
    /\ UNCHANGED <<users, requests, beside_accounts>>

\* get_current_user up to User.get: tokens_db.get(token), 401 when the
\* token is not there
GetCurrentUser(token) ==
    /\ IF ~TokenKnown(token)
       THEN /\ pc = "idle"
            /\ pc' = "get_current_user"
            /\ call' = AuthCall("", "", token)
            /\ resp' = AuthError(401, "Invalid token")
            /\ UNCHANGED requests
       ELSE /\ BagCardinality(requests) < MaxInFlight
            /\ requests' = Suspend(requests,
                                   Suspended("get_current_user", "get", "", "", token,
                                             tokens_db[token]))
            /\ UNCHANGED <<pc, call, resp>>
    /\ UNCHANGED <<users, tokens_db, issued, beside_accounts>>

\* get_current_user from the answer of User.get
GetCurrentUserAnswer(h) ==
    /\ h.op = "get_current_user"
    /\ pc = "idle"
    /\ pc' = "get_current_user"
    /\ call' = AuthCall("", "", h.token)
    /\ LET user == UserGet(h.user_id)
       IN  resp' = IF user = NoUser THEN AuthError(401, "User not found")
                   ELSE AuthAnswer(0, user)
    /\ requests' = Resume(requests, h)
    /\ UNCHANGED <<users, tokens_db, issued, beside_accounts>>

\* logout: it has no await
Logout(token) ==
    /\ pc = "idle"
    /\ pc' = "logout"
    /\ call' = AuthCall("", "", token)
    /\ tokens_db' = IF TokenKnown(token) THEN WithoutToken(tokens_db, token) ELSE tokens_db
    /\ resp' = AuthAnswer(0, NoUser)
    /\ UNCHANGED <<users, issued, requests, beside_accounts>>

Addresses == {"abebe@eeu.et", "sara@eeu.et"}
Passwords == {"secret1", "secret2"}
\* Tokens a client can present: 0 was never issued; a token not yet issued
\* cannot be guessed
Presented == 0..MaxTokens

InitAuth ==
    /\ data_file = MissingData
    /\ model_file = MissingModel
    /\ scaler_file = FALSE
    /\ ml_importable = TRUE
    /\ backups = <<>>
    /\ api_key = FALSE
    /\ InitApp

NextAuth ==
    \/ \E email \in Addresses : RegisterFindOne(email, "secret1")
    \/ \E h \in BagToSet(requests) : RegisterInsert(h)
    \/ \E h \in BagToSet(requests) : RegisterAnswer(h)
    \/ \E email \in Addresses, password \in Passwords : Login(email, password)
    \/ \E token \in Presented : (token <= issued /\ GetCurrentUser(token))
    \/ \E h \in BagToSet(requests) : GetCurrentUserAnswer(h)
    \/ \E token \in Presented : (token <= issued /\ Logout(token))
    \/ Return

SpecAuth == InitAuth /\ [][NextAuth]_vars

----------------------------------------------------------------------------
(* Chatbot (app/routes/chatbot.py).  A message is a sequence of pieces: a   *)
(* blank, or a lower-case phrase.                                           *)

MaxMessage == 4         \* pieces of the longest message considered

Blank == " "
Pieces == {Blank, "help", "peak demand"}
Messages == UNION { [1..n -> Pieces] : n \in 0..MaxMessage }

\* str.strip(): the message without its leading and trailing blanks
RECURSIVE Strip(_)
Strip(message) ==
    IF message = <<>> THEN <<>>
    ELSE IF Head(message) = Blank THEN Strip(Tail(message))
    ELSE IF message[Len(message)] = Blank THEN Strip(SubSeq(message, 1, Len(message) - 1))
    ELSE message

\* ChatBot.get_intent: the first intent of the knowledge base with a keyword
\* in the message
GetIntent(message) ==
    IF \E k \in 1..Len(message) : message[k] = "peak demand" THEN "forecast"
    ELSE IF \E k \in 1..Len(message) : message[k] = "help" THEN "help"
    ELSE "general"

ChatAnswer(status, detail, intent, consulted) ==
    [status |-> status, detail |-> detail, intent |-> intent, consulted |-> consulted]

\* POST /chat/message.  The HTTPException of line 221 is raised inside the
\* try of line 219, and `except Exception` at line 230 catches it and raises
\* the 500 of line 231 with str(e) as detail.
Chat(message) ==
    /\ pc = "idle"
    /\ pc' = "chat"
    /\ call' = [message |-> message]
    /\ resp' = IF message = <<>> \/ Len(Strip(message)) = 0
               THEN ChatAnswer(500, "400: Message cannot be empty", "", FALSE)
               ELSE ChatAnswer(200, "", GetIntent(message), TRUE)
    /\ UNCHANGED <<forecasting, beside_forecasting>>

\* GET /chat/suggestions
GetSuggestions ==
    /\ pc = "idle"
    /\ pc' = "get_suggestions"
    /\ call' = [message |-> <<>>]
    /\ resp' = ChatAnswer(200, "", "suggestions", FALSE)
    /\ UNCHANGED <<forecasting, beside_forecasting>>

NextChat ==
    \/ \E message \in Messages : Chat(message)
    \/ GetSuggestions
    \/ Return

SpecChat == InitAuth /\ [][NextChat]_vars

----------------------------------------------------------------------------
(* Properties of single predictions (Spec)                                 *)

\* C1: DemandPredictor.predict returns a demand of at least 100 MW (so a
\* non-negative one) for every temperature, hour, day of the week, month,
\* humidity and holiday flag, with or without a model loaded and whatever
\* the model returns.
PredictAtLeastFloor ==
    pc = "predict" => resp.demand >= MinimumDemand /\ resp.demand >= 0

\* C1 happens: an hour of a cold day, whose pattern demand is negative, is
\* answered with the floor while a model that declines to answer is loaded.
PredictFloorReached ==
    /\ pc = "predict"
    /\ call.hour \in Hours
    /\ call.temperature = -ColdBelow
    /\ predictor.use_model
    /\ ~MLAnswers(predictor, call)
    /\ resp.demand = MinimumDemand

----------------------------------------------------------------------------
(* Properties of the horizons (SpecHorizon)                                *)

\* The hours of a forecast list start at s and wrap around midnight.
HoursFrom(predictions, s) ==
    /\ Len(predictions) = 24
    /\ \A i \in 0..23 : predictions[i + 1].hour = (s + i) % 24
    /\ \A h \in 0..23 : Cardinality({k \in 1..24 : predictions[k].hour = h}) = 1

\* C2: predict_next_24h, predict_24h and GET /forecast/24h return exactly
\* 24 points; the i-th point (i = 0..23) of a forecast that starts at hour s
\* has hour (s + i) mod 24, so every hour 0..23 appears exactly once.
ForecastCovers24Hours ==
    /\ pc \in {"predict_next_24h", "adv_predict_24h"}
         => HoursFrom(resp.predictions, call.start.hour)
    /\ pc = "get_24h_forecast" /\ resp.status = 200
         => HoursFrom(resp.forecasts, call.start.hour)

\* C2 happens: a forecast that starts at 17:00 crosses midnight.
ForecastWrapsMidnight ==
    /\ pc = "get_24h_forecast"
    /\ resp.status = 200
    /\ call.start.hour = 17
    /\ resp.forecasts[7].hour = 23
    /\ resp.forecasts[8].hour = 0

\* C3: every day entry of predict_weekly (of either predictor) has
\* peak_demand >= avg_demand >= min_demand, and the response of /analytics
\* has max_demand >= avg_demand >= min_demand, for every base temperature
\* and every pattern table.
PeakAverageTrough ==
    /\ pc \in {"predict_weekly", "adv_predict_weekly"}
         => \A k \in 1..Len(resp.predictions) :
                /\ resp.predictions[k].peak_demand >= resp.predictions[k].avg_demand
                /\ resp.predictions[k].avg_demand >= resp.predictions[k].min_demand
    /\ pc = "get_analytics" /\ resp.status = 200
         => /\ resp.max_demand >= resp.avg_demand
            /\ resp.avg_demand >= resp.min_demand

\* C3 happens: a week computed from a table learnt from a data file, with
\* days whose peak, average and trough all differ.
WeekWithDistinctSummaries ==
    /\ pc = "predict_weekly"
    /\ predictor.data_patterns = "True"
    /\ Len(resp.predictions) = 7
    /\ \E k \in 1..7 :
          /\ resp.predictions[k].peak_demand > resp.predictions[k].avg_demand
          /\ resp.predictions[k].avg_demand > resp.predictions[k].min_demand

----------------------------------------------------------------------------
(* Properties under recomputation (SpecRecompute)                          *)

EmptyDataset(dfile) == ~dfile.exists \/ ~dfile.readable \/ Len(dfile.rows) = 0

\* The documented default table
HoldsDefaultTable(p) ==
    /\ p.base_demand = DefaultBaseDemand
    /\ p.hour_factors = DefaultHourFactors
    /\ p.day_factors = DefaultDayFactors
    /\ p.temp_coef = DefaultTempCoef

\* A step that computes a pattern table: the first get_predictor(), a
\* reload_patterns or a reload_data.
Recomputes ==
    /\ pc = "idle"
    /\ pc' \in {"get_forecast", "reload_patterns", "reload_data"}
    /\ pc' = "get_forecast" => predictor.kind = "None"

\* C5: recomputing the pattern table from an empty dataset (zero records,
\* missing or unreadable data file) yields the default table: base demand
\* 3500, the Ethiopian hourly shape, the day-of-week multipliers and the
\* temperature coefficient 15, whatever the table held before, in the
\* DemandPredictor and in the fallback DataDrivenPredictor alike.
RecomputeFromEmptyGivesDefaults ==
    [][Recomputes /\ EmptyDataset(data_file)
         => resp'.status = 200 /\ HoldsDefaultTable(predictor')]_vars

----------------------------------------------------------------------------
(* Properties of the alert evaluator (SpecAlerts)                          *)

\* The alerts are exactly one alert of the severity.
OneAlertOf(alerts, severity) == Len(alerts) = 1 /\ alerts[1].severity = severity

\* C6: check_thresholds(demand, capacity) returns at most one alert, by
\* utilization = demand/capacity*100: emergency iff above 95, critical iff
\* above 85 and at most 95, warning iff above 75 and at most 85, none iff at
\* most 75.  On 9000 MW: 8640 MW is one emergency, 7200 MW one warning,
\* 4500 MW none, and exactly 95 %, 85 %, 75 % fall in the lower tier.
ThresholdTiers ==
    pc \in {"check_thresholds", "check_demand_alerts"} =>
        LET d == call.demand_mw
            c == call.capacity_mw
            alerts == resp.alerts
        IN  /\ Len(alerts) <= 1
            /\ OneAlertOf(alerts, "emergency") <=> d * 100 > 95 * c
            /\ OneAlertOf(alerts, "critical") <=> (d * 100 > 85 * c /\ d * 100 <= 95 * c)
            /\ OneAlertOf(alerts, "warning") <=> (d * 100 > 75 * c /\ d * 100 <= 85 * c)
            /\ alerts = <<>> <=> d * 100 <= 75 * c
            /\ c = 9000 /\ d = 8640 => OneAlertOf(alerts, "emergency")
            /\ c = 9000 /\ d = 7200 => OneAlertOf(alerts, "warning")
            /\ c = 9000 /\ d = 4500 => alerts = <<>>
            /\ c = 9000 /\ d = 8550 => OneAlertOf(alerts, "critical")
            /\ c = 9000 /\ d = 7650 => OneAlertOf(alerts, "warning")
            /\ c = 9000 /\ d = 6750 => alerts = <<>>

\* C6 happens: a demand of exactly 95 % of 9000 MW is evaluated, and the
\* alert is a critical one.
ExactlyAtEmergencyThreshold ==
    /\ pc = "check_thresholds"
    /\ call.capacity_mw = 9000
    /\ call.demand_mw = 8550
    /\ OneAlertOf(resp.alerts, "critical")

----------------------------------------------------------------------------
(* Properties of the composition of a prediction (Spec)                    *)

\* C7: with the default table and no ML contribution, predict at 25 degrees
\* (humidity 60, no holiday) returns base_demand * hour_mult[hour] *
\* day_mult[day_of_week] * month_mult[month] for every hour, day and month:
\* the month multiplier (the month table of the code is month_patterns) is
\* part of the product.
PredictComposesMonth ==
    (/\ pc = "predict"
     /\ HoldsDefaultTable(predictor)
     /\ ~predictor.use_model
     /\ call.temperature = 25 /\ call.humidity = 60 /\ call.is_holiday = 0
     /\ call.hour \in 0..23 /\ call.day_of_week \in 0..6 /\ call.month \in 1..12)
    => resp.demand =
         RoundScaled(DefaultBaseDemand * DefaultHourFactors[call.hour]
                                       * DefaultDayFactors[call.day_of_week],
                     month_patterns[call.month], 10000)

\* 0.6 * pattern + 0.4 * ml, in cMW, of a pattern demand in d4 and an ML
\* output in d4
BlendOf(pattern, ml) == RoundHalfEven(6 * pattern + 4 * ml, 1000)

\* C8: when an ML estimate is available, predict returns the blend
\* 0.6 * pattern + 0.4 * ml iff the raw ML output exceeds the floor, and the
\* pattern-only demand otherwise; it is never the ML output alone.
BlendOnlyAboveFloor ==
    /\ (pc = "predict" /\ predictor.use_model /\ predictor.model # NoModel
                       /\ ~predictor.model.raises)
         => resp.demand =
              IF MLOutput(predictor.model, call) > MLFloor
              THEN BlendOf(PatternDemand(predictor, call) * 100,
                           MLOutput(predictor.model, call))
              ELSE PatternDemand(predictor, call)
    /\ (pc = "adv_predict" /\ AdvBlends(advanced, call))
         => resp.result.predicted_demand =
              IF MLOutput(advanced.linear, call) > MLFloor
              THEN Max(0, BlendOf(AdvPatternDemand(call), MLOutput(advanced.linear, call)))
              ELSE Max(0, RoundScaled(AdvPatternDemand(call), 1, 100))

PredictRejectsMalformed ==
    (/\ pc \in {"predict", "adv_predict"}
     /\ (call.hour \notin 0..23 \/ call.month \notin 1..12))
    => resp.status # 200

----------------------------------------------------------------------------
(* Properties of the forecast alerts (SpecInsights)                        *)

\* The number of alerts of a type raised for the hour of a forecast point
AlertsFor(alerts, type, hour) ==
    Len(SelectSeq(alerts, LAMBDA a : a.type = type /\ a.hour = hour))

\* C11: every forecast point gets exactly one critical alert when its
\* demand is above 4800 MW, exactly one warning alert when it is above
\* 4200 MW and at most 4800 MW, and neither otherwise, never both; this
\* holds of generate_alerts and of GET /ai/alerts alike.
ForecastAlertTiers ==
    (pc \in {"generate_alerts", "get_peak_alerts"} /\ resp.status = 200) =>
        \A k \in 1..Len(resp.predictions) :
            LET demand == resp.predictions[k].predicted_demand
                hour == resp.predictions[k].hour
                critical == AlertsFor(resp.alerts, "critical", hour)
                warning == AlertsFor(resp.alerts, "warning", hour)
            IN  /\ critical = (IF demand > 480000 THEN 1 ELSE 0)
                /\ warning = (IF demand > 420000 /\ demand <= 480000 THEN 1 ELSE 0)
                /\ critical + warning <= 1

\* The maintenance window GET /ai/insights reports covers position i.
InWindow(insights, i) ==
    \E k \in 1..Len(insights) :
        /\ insights[k].category = "Maintenance Window"
        /\ insights[k].at <= i /\ i < insights[k].until

\* C12: a forecast point gets a maintenance-opportunity info alert if and
\* only if its demand is below 1.1 times the minimum demand of the
\* evaluated period, whatever its hour and its absolute level.
LowDemandRelativeToMinimum ==
    /\ pc = "generate_alerts" =>
         \A k \in 1..Len(resp.predictions) :
            AlertsFor(resp.alerts, "info", resp.predictions[k].hour) = 1
              <=> resp.predictions[k].predicted_demand * 10
                    < MinSeq(DemandsOf(resp.predictions)) * 11
    /\ (pc = "get_ai_insights" /\ resp.status = 200) =>
         \A k \in 1..Len(resp.predictions) :
            InWindow(resp.insights, k - 1)
              <=> resp.predictions[k].predicted_demand * 10
                    < MinSeq(DemandsOf(resp.predictions)) * 11

----------------------------------------------------------------------------
(* Properties of the optional ML path (Spec)                               *)

\* The ML path fails for the arguments: an artifact is missing or did not
\* load, the model raises, or its output is implausible (at most 100 MW).
MLPathFails(a) ==
    \/ ~model_file.exists \/ ~model_file.loads \/ ~scaler_file
    \/ model_file.object.raises
    \/ MLOutput(model_file.object, a) <= MLFloor

\* C13: no failure of the optional ML path surfaces to the caller: when an
\* artifact is missing or fails to load, or the model raises or returns an
\* implausible value, constructing a predictor and calling predict complete
\* without error, and predict returns the value of the pattern-only path.
MLFailuresDegradeToPattern ==
    /\ pc = "adv_new" => resp.status = 200
    /\ (pc = "predict" /\ MLPathFails(call))
         => resp.status = 200 /\ resp.demand = PatternDemand(predictor, call)
    /\ (pc = "adv_predict" /\ MLPathFails(call))
         => /\ resp.status = 200
            /\ resp.result.predicted_demand
                 = Max(0, RoundScaled(AdvPatternDemand(call), 1, 100))

----------------------------------------------------------------------------
(* Properties of the weather route (SpecWeather)                           *)

\* The outbound call failed: it raised, answered another status than 200,
\* or answered a body that is not the JSON document the handler reads.
CallFailed(o) ==
    \/ o.error \in {"network", "timeout"}
    \/ o.status # 200
    \/ ~o.body.json \/ ~o.body.complete \/ ~o.body.numeric

\* C14: for a known city get_current_weather answers 200 with a weather
\* record of that city whatever the outbound call does, and when the call
\* was made and failed (network error, timeout, non-200 status, malformed
\* body) the record is the simulated one, the same for every kind of
\* failure; only an unknown city is answered with an error, 404.
WeatherNeverRaises ==
    pc = "get_current_weather" =>
        IF call.city \in KnownCities
        THEN /\ resp.status = 200
             /\ resp.weather.city = call.city
             /\ resp.weather.source \in {"simulated", "openweathermap"}
             /\ (resp.called /\ CallFailed(call.outcome)) =>
                    /\ resp.weather.source = "simulated"
                    /\ resp.weather = SimulatedWeather(call.city, call.hour, call.jitter, call.now)
        ELSE resp.status = 404

\* The outbound call was made and answered 500 with a well-formed body.
WeatherCallAnswered500 ==
    /\ pc = "get_current_weather"
    /\ call.city = "Dire Dawa"
    /\ resp.called
    /\ call.outcome.error = "none" /\ call.outcome.status = 500
    /\ call.outcome.body.numeric
    /\ resp.weather.source = "simulated"

----------------------------------------------------------------------------
(* Properties of the alert operations (SpecAlertOps)                       *)

\* alerts_db after the step begins with alerts_db before it.
AlertsKept == 
    /\ Len(alerts_db') >= Len(alerts_db)
    /\ SubSeq(alerts_db', 1, Len(alerts_db)) = alerts_db

\* The alert differs from what it was in nothing but the three fields of an
\* acknowledgement, and it is acknowledged.
OnlyAcknowledged(before, after) ==
    /\ after.acknowledged
    /\ [after EXCEPT !.acknowledged = before.acknowledged,
                     !.acknowledged_by = before.acknowledged_by,
                     !.acknowledged_at = before.acknowledged_at] = before

\* C15: in every step of the alert operations alerts_db changes only as
\* follows: create appends one unacknowledged alert; check-demand appends
\* one exactly when the demand is above the warning threshold; acknowledge
\* changes, in alerts of the given id only, the fields acknowledged,
\* acknowledged_by and acknowledged_at, and leaves the alert acknowledged;
\* delete removes the alerts of the given id and no other; a step of any
\* other operation leaves alerts_db as it was.
AlertsLifecycleStep ==
    CASE pc' = "create_alert" ->
            /\ AlertsKept
            /\ Len(alerts_db') = Len(alerts_db) + 1
            /\ ~alerts_db'[Len(alerts_db')].acknowledged
      [] pc' = "check_demand_alerts" ->
            /\ AlertsKept
            /\ Len(alerts_db') = Len(alerts_db) +
                  (IF call'.demand_mw * 100 > 75 * 9000 THEN 1 ELSE 0)
      [] pc' = "acknowledge_alert" ->
            /\ Len(alerts_db') = Len(alerts_db)
            /\ \A i \in 1..Len(alerts_db) :
                  \/ alerts_db'[i] = alerts_db[i]
                  \/ /\ alerts_db[i].id = call'.alert_id
                     /\ OnlyAcknowledged(alerts_db[i], alerts_db'[i])
      [] pc' = "delete_alert" ->
            alerts_db' = SelectSeq(alerts_db, LAMBDA a : a.id # call'.alert_id)
      [] OTHER -> alerts_db' = alerts_db

AlertsLifecycle == [][AlertsLifecycleStep]_vars

\* An alert made by check-demand is acknowledged after a sample alert was
\* deleted, the configuration replaced and a subscription made.
AcknowledgedAfterDelete ==
    /\ pc = "acknowledge_alert"
    /\ resp.status = 200
    /\ Len(alerts_db) = 3
    /\ alerts_db[1].id.n = 2
    /\ alerts_db[3].title = "peak"
    /\ alerts_db[3].id = call.alert_id
    /\ alerts_db[3].acknowledged
    /\ alert_config.push_enabled = FALSE
    /\ alert_subscriptions # {}

\* C16: no two alerts in alerts_db share an id, after any sequence of
\* create, check-demand and delete operations, also within one second.
AlertIdsUnique ==
    \A i, j \in 1..Len(alerts_db) : i # j => alerts_db[i].id # alerts_db[j].id

----------------------------------------------------------------------------
(* Properties of the household routes (SpecHouseholds)                     *)

\* The two estimates of a household are those of its attributes.
EstimatesOfAttributes(h) ==
    /\ h.estimated_monthly_kwh =
          50 + 30 * h.num_people + 20 * h.num_rooms
             + (IF h.has_ac THEN 150 ELSE 0) + (IF h.has_heater THEN 100 ELSE 0)
             + (IF h.has_ev THEN 200 ELSE 0) + 15 * Len(h.appliances)
    /\ h.estimated_monthly_cost = h.estimated_monthly_kwh * 275

\* C17: the estimates of a household are computed at creation from the
\* attributes given then, estimated_monthly_kwh by the formula and
\* estimated_monthly_cost as 2.75 times it (here in hundredths), and every
\* step keeps each stored household as it is unless it is the delete of its
\* id; create, get and list answer with exactly the stored values.
HouseholdSnapshotStep ==
    /\ \A i \in 1..Len(households'.documents) :
          EstimatesOfAttributes(households'.documents[i])
    /\ \A i \in 1..Len(households.documents) :
          \/ \E j \in 1..Len(households'.documents) :
                households'.documents[j] = households.documents[i]
          \/ pc' = "delete_household" /\ call'.household_id = households.documents[i].id
    /\ pc' = "create_household" =>
          /\ resp'.households = <<households'.documents[Len(households'.documents)]>>
          /\ \A k \in {"num_people", "num_rooms", "has_ac", "has_heater", "has_ev",
                       "appliances"} : resp'.households[1][k] = call'[k]
    /\ pc' = "list_households" => resp'.households = households.documents
    /\ pc' = "get_household" =>
          \A i \in 1..Len(households.documents) :
              households.documents[i].id = call'.household_id =>
                  resp'.status = 200 /\ resp'.households = <<households.documents[i]>>

HouseholdSnapshot == [][HouseholdSnapshotStep]_vars

\* The second household, one with an electric vehicle and three appliances,
\* is read after the first was deleted.
HouseholdReadAfterDelete ==
    /\ pc = "get_household"
    /\ resp.status = 200
    /\ call.household_id = 2
    /\ Len(households.documents) = 1
    /\ resp.households[1].has_ev
    /\ resp.households[1].estimated_monthly_kwh = 405
    /\ resp.households[1].estimated_monthly_cost = 111375

----------------------------------------------------------------------------
(* Properties of the recompute (SpecSwap)                                  *)

\* The tables a whole recompute leaves: that of a data file, or the defaults
CompleteTables ==
    {TableOf(LoadDataPatterns(BlankPredictor, f)) : f \in DataFiles}

----------------------------------------------------------------------------
(* Properties of the confidence of forecasts (SpecHorizon)                 *)

\* C19: confidence decreases with lead time in every horizon: in
\* predict_weekly each day has a lower confidence than the day before, and
\* in a 24-hour forecast (predict_24h, predict_with_confidence) no point has
\* a higher confidence than a point of smaller lead time, for every start
\* hour.
ConfidenceDecreasesWithLeadTime ==
    /\ pc = "adv_predict_weekly" =>
          \A i \in 1..6 : resp.predictions[i + 1].confidence < resp.predictions[i].confidence
    /\ pc \in {"adv_predict_24h", "predict_with_confidence"} =>
          \A i, j \in 1..Len(resp.predictions) :
              i < j => resp.predictions[j].confidence <= resp.predictions[i].confidence

----------------------------------------------------------------------------
(* Properties of the blending predictor (Spec)                             *)

\* C20: AdvancedDemandPredictor.predict returns a predicted_demand of at
\* least 100 MW for every input, with or without an ML contribution, and so
\* does the fallback DataDrivenPredictor.predict.
BlendAtLeastMinimum ==
    /\ pc = "adv_predict" => resp.result.predicted_demand >= MinimumDemand
    /\ (pc = "predict_demand" /\ resp.status = 200 /\ predictor.kind = "DataDrivenPredictor")
          => resp.forecasted_demand >= MinimumDemand

----------------------------------------------------------------------------
(* Properties of the pattern tables (SpecPatterns)                         *)

\* The rows of the data file with this value in this column
RowsOf(column, key) == SelectSeq(data_file.rows, LAMBDA r : r[column] = key)

\* The multiplier is a number, and when the mean demand is not 0 it is
\* mean(demand | key) / mean(demand), or 1.0 for a key without rows.
MultiplierIsRatio(multiplier, grp) ==
    /\ multiplier # NaN
    /\ SumDemand(data_file.rows) # 0 =>
          multiplier = IF grp = <<>> THEN 100
                       ELSE RoundHalfEven(SumDemand(grp) * Len(data_file.rows) * 100,
                                          Len(grp) * SumDemand(data_file.rows))

\* C21: a predictor recomputed from a non-empty data file has base demand
\* mean(demand), and every hour and day-of-week multiplier is defined and is
\* mean(demand | key) / mean(demand), 1.0 for a key without rows; also when
\* the mean demand is 0.
PatternsAreRatios ==
    (predictor.kind # "None" /\ Len(data_file.rows) > 0) =>
        /\ predictor.base_demand = RoundHalfEven(SumDemand(data_file.rows), Len(data_file.rows))
        /\ \A h \in 0..23 : MultiplierIsRatio(predictor.hour_factors[h], RowsOf("hour", h))
        /\ \A d \in 0..6 : MultiplierIsRatio(predictor.day_factors[d], RowsOf("day_of_week", d))

----------------------------------------------------------------------------
(* Properties of the points of a 24-hour forecast (SpecHorizon)            *)

\* The weekday the point i hours after hour s of weekday w falls on
WeekdayOfPoint(s, w, i) == IF s + i < 24 THEN w ELSE (w + 1) % 7

\* The arguments of the prediction at point i: the temperature is the base
\* plus the offset of the point's hour of day.
PointArgs(base_temp, start, i) ==
    [temperature |-> base_temp + temp_variation[(start.hour + i) % 24],
     hour |-> (start.hour + i) % 24,
     day_of_week |-> WeekdayOfPoint(start.hour, start.weekday, i),
     month |-> start.month, humidity |-> DefaultHumidity, is_holiday |-> 0]

\* Point i of the list is the prediction from the arguments of point i.
PointsFollowClock(points, demand(_)) ==
    \A i \in 0..23 :
        LET a == PointArgs(call.base_temp, call.start, i)
        IN  /\ points[i + 1].hour = a.hour
            /\ points[i + 1].temperature = a.temperature
            /\ points[i + 1].predicted_demand = demand(a)

\* C22: in a 24-hour forecast starting at hour s on weekday w, point i is
\* predicted with temperature base + offset[(s + i) mod 24] and with weekday
\* w while s + i < 24 and (w + 1) mod 7 from s + i = 24 on, by all three
\* predictors.
ForecastPointsFollowClock ==
    /\ pc = "predict_next_24h" =>
          PointsFollowClock(resp.predictions, LAMBDA a : Predict(predictor, a))
    /\ (pc = "get_24h_forecast" /\ resp.status = 200) =>
          PointsFollowClock(resp.forecasts, LAMBDA a : PredictOn(predictor, a))
    /\ pc = "adv_predict_24h" =>
          PointsFollowClock(resp.predictions,
              LAMBDA a : AdvPredict(advanced,
                             AdvArgs(a.temperature, a.hour, a.day_of_week, a.month)).predicted_demand)

\* A forecast that started at 22:00 on a Sunday: its third point is hour 0 of
\* Monday, and its demand is not the one a Sunday would give.
ForecastCrossedMidnight ==
    /\ pc = "predict_next_24h"
    /\ call.start.hour = 22 /\ call.start.weekday = 6
    /\ resp.predictions[3].hour = 0
    /\ resp.predictions[3].temperature = call.base_temp + temp_variation[0]
    /\ resp.predictions[3].predicted_demand =
          Predict(predictor, [PointArgs(call.base_temp, call.start, 2) EXCEPT !.day_of_week = 0])
    /\ resp.predictions[3].predicted_demand #
          Predict(predictor, [PointArgs(call.base_temp, call.start, 2) EXCEPT !.day_of_week = 6])

----------------------------------------------------------------------------
(* Properties of POST /upload (SpecUpload)                                 *)

\* C23: an upload whose file name does not end in .csv, or whose parsed CSV
\* has no 'demand' column, is answered 400, and the data file, the backups,
\* the data cache, the trained model and the module predictor are as before
\* the call.
RejectedUploadStep ==
    (pc' = "upload_csv" /\ pc = "idle" /\
        (~call'.file.name_csv \/ (call'.file.parses /\ ~call'.file.has_demand)))
    => /\ resp'.status = 400
       /\ UNCHANGED <<data_file, data_mtime, backups, data_cache, last_data_load,
                      model_file, scaler_file, predictor>>

RejectedUploadChangesNothing == [][RejectedUploadStep]_vars

\* An upload without a 'demand' column was answered 400 when a data file, a
\* trained model and a predictor were there.
UploadWithoutDemandRejected ==
    /\ pc = "upload_csv"
    /\ call.file.name_csv /\ call.file.parses /\ ~call.file.has_demand
    /\ resp.status = 400
    /\ data_file.exists /\ data_file.readable /\ model_file.exists
    /\ predictor.kind # "None"

\* The rows of a file with the last row of every datetime kept
RECURSIVE LastOfEachDatetime(_)
LastOfEachDatetime(rows) ==
    IF rows = <<>> THEN <<>>
    ELSE LET rest == Tail(rows)
         IN  IF \E j \in 1..Len(rest) : rest[j].datetime = Head(rows).datetime
             THEN LastOfEachDatetime(rest)
             ELSE <<Head(rows)>> \o LastOfEachDatetime(rest)

\* The predictor get_predictor would construct from the files as they are
ConstructedNow ==
    IF ml_importable THEN NewDemandPredictor(data_file, model_file, scaler_file)
    ELSE ComputePatterns([loaded |-> TRUE, rows |-> data_file.rows])

\* Once an upload has written the data file, the module predictor is the one
\* constructed from the written file, the data cache is empty or holds the
\* written file, and a forecast is answered by that predictor.
ServedByPredictorOfUpload ==
    data_mtime > 0 =>
        /\ predictor = ConstructedNow
        /\ data_cache = NoCache
              \/ (data_cache.rows = data_file.rows /\ last_data_load = data_mtime)
        /\ pc = "get_forecast" =>
              /\ resp.status = 200
              /\ resp.forecasted_demand =
                    PredictOn(ConstructedNow,
                              RouteArgs(ReferenceTemperature, call.hour, call.weekday, call.month))

\* The data file a successful upload leaves is the existing rows and the
\* uploaded rows, with one row for every datetime.
UploadWritesCombined ==
    (pc = "upload_csv" /\ resp.status = 200) =>
        data_file.rows = LastOfEachDatetime(call.existing.rows \o call.file.rows)

\* C24: after a successful upload the cache and the predictor from before it
\* are not used again; every later forecast is served by a predictor
\* constructed after the data file was written, with the pattern table of the
\* combined dataset: the existing and the uploaded rows, de-duplicated by
\* datetime.
ForecastsFromCombinedDataset == ServedByPredictorOfUpload /\ UploadWritesCombined

\* The pattern path of either predictor
PatternPathOn(self, a) ==
    IF self.kind = "DemandPredictor" THEN PatternDemand(self, a) ELSE FallbackPredict(self, a)

\* No retraining has succeeded: the data file only grows, and it is still
\* shorter than training needs.
NeverRetrained == data_mtime > 0 /\ Len(data_file.rows) < MinTrainingRecords

\* An upload whose retraining fails is answered 200 with the pattern-based
\* message.
FailedRetrainingStillUploads ==
    (pc = "upload_csv" /\ NeverRetrained /\ call.file.name_csv /\ call.file.parses
        /\ call.file.has_demand /\ (call.existing.exists => call.existing.readable))
    => (resp.status = 200 /\ resp.message = "pattern-based")

\* C25: when retraining fails during an upload, the upload is answered 200
\* with the pattern-based message, and every forecast served afterwards is
\* the pattern path's value from the new data, not the output of a model
\* saved by an earlier training run.
PatternPathAfterFailedRetraining ==
    /\ FailedRetrainingStillUploads
    /\ (pc = "get_forecast" /\ NeverRetrained) =>
          /\ resp.status = 200
          /\ resp.forecasted_demand =
                PatternPathOn(ConstructedNow,
                              RouteArgs(ReferenceTemperature, call.hour, call.weekday, call.month))

----------------------------------------------------------------------------
(* Properties of authentication (SpecAuth)                                 *)

\* No two documents of the users collection have the same email.
UniqueEmails ==
    \A i, j \in 1..Len(users) : users[i].email = users[j].email => i = j

\* A register answered 400 'Email already registered' created neither a
\* user nor a token.
RegisterRefusedStep ==
    (pc' = "register" /\ pc = "idle" /\ resp'.status = 400)
    => /\ resp'.detail = "Email already registered"
       /\ UNCHANGED <<users, tokens_db, issued>>

RegisterRefusals == [][RegisterRefusedStep]_vars

\* C26: registered emails are unique: a register for an email that has a
\* user is answered 400 'Email already registered' and creates neither a user
\* nor a token, and after any interleaving of registers there is at most one
\* user for an email.
RegisteredEmailsUnique == RegisterRefusals /\ []UniqueEmails

\* What one step does to the token t: it leaves tokens_db only by its own
\* logout, it enters only when it is issued, to the user of the response
\* that carries it, and it stays with that user.
TokenStep(t) ==
    /\ (t \in DOMAIN tokens_db /\ t \notin DOMAIN tokens_db')
          => (pc' = "logout" /\ call'.token = t)
    /\ (t \notin DOMAIN tokens_db /\ t \in DOMAIN tokens_db')
          => /\ t = issued + 1 /\ issued' = t
             /\ pc' \in {"register", "login"}
             /\ resp'.status = 200 /\ resp'.access_token = t
             /\ resp'.user.id = tokens_db'[t]
    /\ (t \in DOMAIN tokens_db /\ t \in DOMAIN tokens_db')
          => tokens_db'[t] = tokens_db[t]

\* get_current_user(t): a token that is not stored is answered 401 'Invalid
\* token'; a stored one is looked up for its user, and that user is answered.
CurrentUserStep ==
    /\ (pc = "idle" /\ pc' = "get_current_user" /\ requests' = requests)
          => /\ call'.token \notin DOMAIN tokens_db
             /\ resp' = AuthError(401, "Invalid token")
    /\ \A h \in BagToSet(requests') :
          (h.op = "get_current_user" /\ CopiesIn(h, requests') > CopiesIn(h, requests))
          => /\ h.token \in DOMAIN tokens_db
             /\ h.user_id = tokens_db[h.token]
    /\ (pc = "idle" /\ pc' = "get_current_user" /\ requests' # requests)
          => \E h \in BagToSet(requests) :
                /\ h.op = "get_current_user"
                /\ CopiesIn(h, requests') < CopiesIn(h, requests)
                /\ h.token = call'.token
                /\ resp'.status = 200
                /\ resp'.user.id = h.user_id

\* logout(t) removes t and nothing else; for a token that is not stored it
\* changes nothing.
LogoutStep ==
    (pc = "idle" /\ pc' = "logout")
    => /\ DOMAIN tokens_db' = DOMAIN tokens_db \ {call'.token}
       /\ call'.token \notin DOMAIN tokens_db => tokens_db' = tokens_db
       /\ UNCHANGED <<users, issued>>

\* C27: a token authenticates from its issuance until its own logout:
\* get_current_user(t) answers the user t was issued to, after logout(t) it
\* answers 401 'Invalid token' for good, logout(t) removes t only, and
\* logout of a token that is not stored changes nothing.
TokenLifetime ==
    [][/\ \A t \in 1..MaxTokens : TokenStep(t)
       /\ CurrentUserStep
       /\ LogoutStep]_vars

\* A token that was issued and logged out is answered 401 'Invalid token'
\* while another session is still open.
LoggedOutTokenRefused ==
    /\ pc = "get_current_user"
    /\ call.token \in 1..issued
    /\ resp = AuthError(401, "Invalid token")
    /\ \E t \in DOMAIN tokens_db : t # call.token

----------------------------------------------------------------------------
(* Properties of the weather cache (SpecWeather)                           *)

\* What one call of get_current_weather does with the cache.
WeatherCacheStep ==
    (pc = "idle" /\ pc' = "get_current_weather") =>
        LET city == call'.city
            stored(c) == weather_cache[c].cached
                            /\ clock - weather_cache[c].timestamp < WeatherCacheSeconds
        IN  /\ (resp'.status = 200 /\ ~resp'.called
                    /\ resp'.weather.source = "openweathermap")
                  => (stored(city) /\ resp'.weather = weather_cache[city].data)
            /\ \A c \in KnownCities :
                  weather_cache'[c] # weather_cache[c]
                  => /\ c = city /\ resp'.called
                     /\ call'.outcome.error = "none" /\ call'.outcome.status = 200
                     /\ weather_cache'[c].data = resp'.weather
                     /\ weather_cache'[c].data.source = "openweathermap"
                     /\ weather_cache'[c].timestamp = clock
            /\ (resp'.called /\ resp'.weather.source = "simulated")
                  => UNCHANGED weather_cache
            /\ (city \in KnownCities /\ api_key /\ ~stored(city)) => resp'.called

\* C28: a cached record is returned only when it was stored less than 30
\* minutes earlier; only records the weather API answered with status 200
\* are put in the cache, simulated records never; a failed fetch leaves the
\* cache as it was, so the next call for the city tries the API again.
WeatherCacheFreshAndReal ==
    [][WeatherCacheStep]_vars

\* A cached record had expired, the API was tried again and failed: the call
\* answered a simulated record and the expired record is still the one
\* stored.
FetchRetriedAfterExpiry ==
    /\ pc = "get_current_weather"
    /\ resp.called /\ resp.weather.source = "simulated"
    /\ weather_cache[call.city].cached
    /\ weather_cache[call.city].data.source = "openweathermap"
    /\ call.now - weather_cache[call.city].timestamp >= WeatherCacheSeconds

----------------------------------------------------------------------------
(* Properties of the chatbot (SpecChat)                                    *)

\* The message has nothing but blanks
OnlyBlanks(message) == \A k \in 1..Len(message) : message[k] = Blank

\* C29: a chat message that is empty or has only whitespace is answered 400
\* 'Message cannot be empty' without the chatbot being consulted; 500 is
\* answered only when generating the response fails.
EmptyMessageRefused ==
    pc = "chat" =>
        /\ OnlyBlanks(call.message)
              => /\ resp.status = 400
                 /\ resp.detail = "Message cannot be empty"
                 /\ ~resp.consulted
        /\ resp.status = 500 => resp.consulted

----------------------------------------------------------------------------
(* Properties of the prediction interval (Spec)                            *)

\* C30: AdvancedDemandPredictor.predict answers an ordered, non-negative
\* interval: 0 <= lower_bound <= predicted_demand <= upper_bound, also when
\* the raw demand is negative and is clamped to 0.
IntervalOrdered ==
    pc = "adv_predict" =>
        /\ 0 <= resp.result.lower_bound
        /\ resp.result.lower_bound <= resp.result.predicted_demand
        /\ resp.result.predicted_demand <= resp.result.upper_bound

====
